---------------------------- MODULE Spec2Model ----------------------------
(***************************************************************************)
(* Apprised backend (src/backend/app.py): the /chat streaming relay, the   *)
(* conversation builder and the attachment normaliser.                     *)
(*                                                                         *)
(* Text is a sequence of one-character strings, so that prefix tests,      *)
(* substring tests, lower-casing, splitting and concatenation are computed *)
(* as the code computes them.  A JSON value whose type the code does not   *)
(* fix is tagged: [t |-> "absent"], [t |-> "str", s |-> text],             *)
(* [t |-> "list", l |-> sequence].                                         *)
(***************************************************************************)
EXTENDS Naturals, Sequences, FiniteSets, TLC

VARIABLES
    req,        \* req[r]: the HTTP request r carries, once it has arrived
    pc,         \* pc[r]: where request r stands (see PcValues)
    resp,       \* resp[r]: status line and body kind of the HTTP response
    messages,   \* messages[r]: the conversation chat() built for r
    apiCalls,   \* apiCalls[r]: the api_params of every client.messages.stream call
    received,   \* received[r]: the text deltas text_stream has yielded so far
    raised,     \* raised[r]: the exception caught by generate(), if any
    events,     \* events[r]: the frames generate() has yielded, in order
    attachments, \* the `files` list handed to process_files
    normalized, \* what process_files returned for it, once it has run
    stopReason, \* stopReason[r]: the stop reason of the provider's message,
                \* once text_stream is exhausted; generate() never reads it
    store,      \* the rows of the chats, documents, system_prompts and agents tables
    nextId,     \* the next value of the tables' primary key sequence
    clock,      \* the current time, in ticks
    api,        \* api[s]: the request that worker s is serving, and its answer
    users,      \* the rows of the users table: their id and google_id
    tokens,     \* tokens[u]: the Google columns of the row of user u
    google      \* the calls made to Google's token, revoke and Drive endpoints

vars == <<req, pc, resp, messages, apiCalls, received, raised, events,
          attachments, normalized, stopReason, store, nextId, clock, api,
          users, tokens, google>>

\* The database and the workers of the data API.
dbVars == <<store, nextId, clock, api, users, tokens, google>>

\* The Google credentials of the users and the calls made to Google.
driveVars == <<tokens, google>>

\* The /chat requests and the attachment normaliser.
chatVars == <<req, pc, resp, messages, apiCalls, received, raised, events,
              attachments, normalized, stopReason>>

-----------------------------------------------------------------------------
(* Bounds of the model.                                                    *)

\* The provider yields at most this many text deltas in one stream.
MaxDeltas == 3

-----------------------------------------------------------------------------
(* Text.                                                                   *)

Upper ==
    <<"A", "B", "C", "D", "E", "F", "G", "H", "I", "J", "K", "L", "M", "N", "O", "P", "Q", "R", "S",
      "T", "U", "V", "W", "X", "Y", "Z">>

LowerAlpha ==
    <<"a", "b", "c", "d", "e", "f", "g", "h", "i", "j", "k", "l", "m", "n", "o", "p", "q", "r", "s",
      "t", "u", "v", "w", "x", "y", "z">>

\* AsciiChar[b + 1] is the character with code b, 0 <= b < 128.
AsciiChar ==
    <<"<00>", "<01>", "<02>", "<03>", "<04>", "<05>", "<06>", "<07>", "<08>", "\t", "\n", "<0B>",
      "<0C>", "\r", "<0E>", "<0F>", "<10>", "<11>", "<12>", "<13>", "<14>", "<15>", "<16>", "<17>",
      "<18>", "<19>", "<1A>", "<1B>", "<1C>", "<1D>", "<1E>", "<1F>", " ", "!", "\"", "#", "$", "%",
      "&", "'", "(", ")", "*", "+", ",", "-", ".", "/", "0", "1", "2", "3", "4", "5", "6", "7", "8",
      "9", ":", ";", "<", "=", ">", "?", "@", "A", "B", "C", "D", "E", "F", "G", "H", "I", "J", "K",
      "L", "M", "N", "O", "P", "Q", "R", "S", "T", "U", "V", "W", "X", "Y", "Z", "[", "\\", "]", "^",
      "_", "<60>", "a", "b", "c", "d", "e", "f", "g", "h", "i", "j", "k", "l", "m", "n", "o", "p",
      "q", "r", "s", "t", "u", "v", "w", "x", "y", "z", "{", "|", "}", "~", "<7F>">>

B64Alphabet ==
    <<"A", "B", "C", "D", "E", "F", "G", "H", "I", "J", "K", "L", "M", "N", "O", "P", "Q", "R", "S",
      "T", "U", "V", "W", "X", "Y", "Z", "a", "b", "c", "d", "e", "f", "g", "h", "i", "j", "k", "l",
      "m", "n", "o", "p", "q", "r", "s", "t", "u", "v", "w", "x", "y", "z", "0", "1", "2", "3", "4",
      "5", "6", "7", "8", "9", "+", "/">>

IndexOf(c, table) ==
    IF \E i \in 1..Len(table) : table[i] = c
    THEN CHOOSE i \in 1..Len(table) : table[i] = c
    ELSE 0

\* str.lower(), character by character.
LowerChar(c) ==
    IF IndexOf(c, Upper) = 0 THEN c ELSE LowerAlpha[IndexOf(c, Upper)]

Lower(s) == [i \in 1..Len(s) |-> LowerChar(s[i])]

\* p in s, for two strings.
Contains(s, p) ==
    \E i \in 1..(Len(s) + 1) :
        /\ i + Len(p) - 1 <= Len(s)
        /\ SubSeq(s, i, i + Len(p) - 1) = p

\* s.startswith(p)
StartsWith(s, p) ==
    /\ Len(p) <= Len(s)
    /\ SubSeq(s, 1, Len(p)) = p

RECURSIVE Concat(_)
Concat(ss) == IF ss = <<>> THEN <<>> ELSE Head(ss) \o Concat(Tail(ss))

-----------------------------------------------------------------------------
(* JSON values of the request body.                                        *)

Absent == [t |-> "absent"]
Str(s) == [t |-> "str", s |-> s]
List(l) == [t |-> "list", l |-> l]

\* Python truth value of data.get(key, default), whose defaults ('' and [])
\* are both false.
Truthy(v) ==
    CASE v.t = "absent" -> FALSE
      [] v.t = "str" -> v.s # <<>>
      [] v.t = "list" -> v.l # <<>>
      [] OTHER -> TRUE

\* data.get(key, '') for a value the code then uses as it is.
OrEmptyStr(v) == IF v.t = "absent" THEN Str(<<>>) ELSE v

\* data.get(key, []) for a value the code then iterates.
OrEmptyList(v) == IF v.t = "absent" THEN <<>> ELSE v.l

-----------------------------------------------------------------------------
(* Error classification of generate()'s exception handler.                 *)

AuthenticationPat ==
    <<"a", "u", "t", "h", "e", "n", "t", "i", "c", "a", "t", "i", "o", "n">>

ApiKeyPat ==
    <<"a", "p", "i", " ", "k", "e", "y">>

UsagePat ==
    <<"u", "s", "a", "g", "e">>

QuotaPat ==
    <<"q", "u", "o", "t", "a">>

InvalidKeyMessage ==
    <<"I", "n", "v", "a", "l", "i", "d", " ", "A", "P", "I", " ", "k", "e", "y", ".", " ", "P", "l",
      "e", "a", "s", "e", " ", "c", "h", "e", "c", "k", " ", "y", "o", "u", "r", " ", "A", "P", "I",
      " ", "k", "e", "y", " ", "i", "n", " ", "S", "e", "t", "t", "i", "n", "g", "s", ".">>

LimitMessage ==
    <<"A", "P", "I", " ", "u", "s", "a", "g", "e", " ", "l", "i", "m", "i", "t", " ", "r", "e", "a",
      "c", "h", "e", "d", ".", " ", "P", "l", "e", "a", "s", "e", " ", "c", "h", "e", "c", "k", " ",
      "y", "o", "u", "r", " ", "a", "c", "c", "o", "u", "n", "t", ".">>

\* The classification without the lower-casing of the text.
ErrorMessageCaseSensitive(text) ==
    IF Contains(text, AuthenticationPat) \/ Contains(text, ApiKeyPat)
    THEN InvalidKeyMessage
    ELSE IF Contains(text, UsagePat) \/ Contains(text, QuotaPat)
         THEN LimitMessage
         ELSE text

\* generate(), lines 566-572: the message of the error event for the
\* exception text `text`.
ErrorMessage(text) ==
    LET low == Lower(text) IN
    IF Contains(low, AuthenticationPat) \/ Contains(low, ApiKeyPat)
    THEN InvalidKeyMessage
    ELSE IF Contains(low, UsagePat) \/ Contains(low, QuotaPat)
         THEN LimitMessage
         ELSE text

-----------------------------------------------------------------------------
(* process_files: the attachment normaliser.                               *)

ImagePrefix ==
    <<"i", "m", "a", "g", "e", "/">>

PdfType ==
    <<"a", "p", "p", "l", "i", "c", "a", "t", "i", "o", "n", "/", "p", "d", "f">>

TextCsv ==
    <<"t", "e", "x", "t", "/", "c", "s", "v">>

TextPlain ==
    <<"t", "e", "x", "t", "/", "p", "l", "a", "i", "n">>

TextHtml ==
    <<"t", "e", "x", "t", "/", "h", "t", "m", "l">>

AppJson ==
    <<"a", "p", "p", "l", "i", "c", "a", "t", "i", "o", "n", "/", "j", "s", "o", "n">>

TextJavascript ==
    <<"t", "e", "x", "t", "/", "j", "a", "v", "a", "s", "c", "r", "i", "p", "t">>

TextXPython ==
    <<"t", "e", "x", "t", "/", "x", "-", "p", "y", "t", "h", "o", "n">>

TextMarkdown ==
    <<"t", "e", "x", "t", "/", "m", "a", "r", "k", "d", "o", "w", "n">>

ImagePng ==
    <<"i", "m", "a", "g", "e", "/", "p", "n", "g">>

AppZip ==
    <<"a", "p", "p", "l", "i", "c", "a", "t", "i", "o", "n", "/", "z", "i", "p">>

UnknownName ==
    <<"u", "n", "k", "n", "o", "w", "n">>

SecHeadA ==
    <<"-", "-", "-", " ", "F", "i", "l", "e", ":", " ">>

SecHeadB ==
    <<" ", "(">>

SecHeadC ==
    <<")", " ", "-", "-", "-", "\n">>

SecFoot ==
    <<"\n", "-", "-", "-", " ", "E", "n", "d", " ", "o", "f", " ", "F", "i", "l", "e", " ", "-", "-",
      "-", "\n", "\n">>

TextTypes ==
    {TextCsv, TextPlain, TextHtml, AppJson, TextJavascript, TextXPython, TextMarkdown}

\* s.split(c)
RECURSIVE SplitOn(_, _)
SplitOn(s, c) ==
    IF \E i \in 1..Len(s) : s[i] = c
    THEN LET i == CHOOSE k \in 1..Len(s) :
                      s[k] = c /\ \A j \in 1..(k - 1) : s[j] # c
         IN <<SubSeq(s, 1, i - 1)>> \o SplitOn(SubSeq(s, i + 1, Len(s)), c)
    ELSE <<s>>

\* Line 276: data.split(',')[1] if ',' in data else data
Base64Data(data) ==
    IF Contains(data, <<",">>) THEN SplitOn(data, ",")[2] ELSE data

\* Value of a base64 digit, 64 for any other character.
B64Val(c) == IF IndexOf(c, B64Alphabet) = 0 THEN 64 ELSE IndexOf(c, B64Alphabet) - 1

\* binascii.a2b_base64 without strict mode, as base64.b64decode calls it:
\* characters outside the alphabet are skipped, the first complete padding
\* ends the data, and an incomplete last quad is an error.
RECURSIVE A2B(_, _, _, _, _)
A2B(s, quad, left, pads, out) ==
    IF s = <<>>
    THEN [ok |-> quad = 0, bytes |-> out]
    ELSE LET c == Head(s)
             v == B64Val(c)
         IN IF c = "="
            THEN IF quad >= 2 /\ quad + pads + 1 >= 4
                 THEN [ok |-> TRUE, bytes |-> out]
                 ELSE A2B(Tail(s), quad, left, IF quad >= 2 THEN pads + 1 ELSE pads, out)
            ELSE IF v = 64
            THEN A2B(Tail(s), quad, left, pads, out)
            ELSE CASE quad = 0 -> A2B(Tail(s), 1, v, 0, out)
                   [] quad = 1 ->
                        A2B(Tail(s), 2, v % 16, 0, Append(out, left * 4 + v \div 16))
                   [] quad = 2 ->
                        A2B(Tail(s), 3, v % 4, 0, Append(out, left * 16 + v \div 4))
                   [] quad = 3 ->
                        A2B(Tail(s), 0, 0, 0, Append(out, left * 64 + v))

B64Decode(s) == A2B(s, 0, 0, 0, <<>>)

\* bytes.decode('utf-8').  A byte below 128 is its ASCII character; the only
\* bytes of 128 and above that the inputs of this model decode to are 0xFF,
\* which no UTF-8 sequence contains.
Utf8Decode(bytes) ==
    IF \A i \in 1..Len(bytes) : bytes[i] < 128
    THEN [ok |-> TRUE, text |-> [i \in 1..Len(bytes) |-> AsciiChar[bytes[i] + 1]]]
    ELSE [ok |-> FALSE, text |-> <<>>]

\* Line 309: base64.b64decode(base64_data).decode('utf-8')
DecodeAfter(raw) ==
    IF raw.ok THEN Utf8Decode(raw.bytes) ELSE [ok |-> FALSE, text |-> <<>>]

DecodeText(base64_data) == DecodeAfter(B64Decode(base64_data))

\* The except clause of lines 311-312 adding a section that reports the
\* failure instead of only printing it.
TextSectionErrorNote(file_type, name, dec) ==
    SecHeadA \o name \o SecHeadB \o file_type \o SecHeadC
        \o (IF dec.ok THEN dec.text ELSE <<>>) \o SecFoot

\* Lines 308-312: the labelled section of one text file, empty when the
\* payload does not decode (dec is the outcome of the decoding).
TextSection(file_type, name, dec) ==
    IF dec.ok
    THEN SecHeadA \o name \o SecHeadB \o file_type \o SecHeadC \o dec.text \o SecFoot
    ELSE <<>>

Base64Block(kind, file_type, base64_data) ==
    [t |-> "obj", type |-> kind,
     source |-> [type |-> "base64", media_type |-> file_type, data |-> base64_data]]

\* The document test done on the prefix of the type, as the image test is.
FileResultLoosePdf(file_type, base64_data, name) ==
    IF StartsWith(file_type, ImagePrefix)
    THEN [parts |-> <<Base64Block("image", file_type, base64_data)>>, text |-> <<>>]
    ELSE IF StartsWith(file_type, SubSeq(PdfType, 1, 12))
    THEN [parts |-> <<Base64Block("document", file_type, base64_data)>>, text |-> <<>>]
    ELSE IF file_type \in TextTypes
    THEN [parts |-> <<>>, text |-> TextSection(file_type, name, DecodeText(base64_data))]
    ELSE [parts |-> <<>>, text |-> <<>>]

\* Lines 278-312: what a file of this type, data and name adds to
\* content_parts and to text_files_content.
FileResult(file_type, base64_data, name) ==
    IF StartsWith(file_type, ImagePrefix)
    THEN [parts |-> <<Base64Block("image", file_type, base64_data)>>, text |-> <<>>]
    ELSE IF file_type = PdfType
    THEN [parts |-> <<Base64Block("document", file_type, base64_data)>>, text |-> <<>>]
    ELSE IF file_type \in TextTypes
    THEN [parts |-> <<>>, text |-> TextSection(file_type, name, DecodeText(base64_data))]
    ELSE [parts |-> <<>>, text |-> <<>>]

\* One iteration of the loop of process_files (lines 275-312).
ProcessFile(file_data) ==
    FileResult(OrEmptyStr(file_data.type).s,
               Base64Data(OrEmptyStr(file_data.data).s),
               IF file_data.name.t = "absent" THEN UnknownName ELSE file_data.name.s)

\* The results of the files put together last file first.
AddFileReversed(one, rest) ==
    [parts |-> rest.parts \o one.parts, text |-> rest.text \o one.text]

\* content_parts and text_files_content after one more file.
AddFile(one, rest) ==
    [parts |-> one.parts \o rest.parts, text |-> one.text \o rest.text]

\* process_files(files): (content_parts, text_files_content)
RECURSIVE process_files(_)
process_files(files) ==
    IF files = <<>>
    THEN [parts |-> <<>>, text |-> <<>>]
    ELSE AddFile(ProcessFile(Head(files)), process_files(Tail(files)))

-----------------------------------------------------------------------------
(* chat(): the conversation builder (lines 486-538).                       *)

\* A block of a message array is an object (t = "obj") with a type and, for a
\* text block, a text; an element that is no object has no .get().
\* extract_message_text(message), lines 257-267.  ok is FALSE when it raises.
RECURSIVE FirstTextPart(_)
FirstTextPart(parts) ==
    IF parts = <<>>
    THEN [ok |-> TRUE, text |-> Str(<<>>)]
    ELSE LET part == Head(parts) IN
         IF part.t # "obj"
         THEN [ok |-> FALSE, text |-> Str(<<>>)]
         ELSE IF part.type = "text"
              THEN [ok |-> TRUE, text |-> OrEmptyStr(part.text)]
              ELSE FirstTextPart(Tail(parts))

extract_message_text(message) ==
    IF message.t = "str"
    THEN [ok |-> TRUE, text |-> message]
    ELSE FirstTextPart(message.l)

\* The inlined file text put after the text instead of before it.
FinalTextAfter(text_files_content, text) ==
    IF text_files_content = <<>>
    THEN [ok |-> TRUE, text |-> text]
    ELSE IF text.t = "str"
         THEN [ok |-> TRUE, text |-> Str(text.s \o text_files_content)]
         ELSE [ok |-> FALSE, text |-> text]

\* text_files_content + text if text_files_content else text (lines 498 and
\* 520): str + list raises TypeError.
FinalText(text_files_content, text) ==
    IF text_files_content = <<>>
    THEN [ok |-> TRUE, text |-> text]
    ELSE IF text.t = "str"
         THEN [ok |-> TRUE, text |-> Str(text_files_content \o text.s)]
         ELSE [ok |-> FALSE, text |-> text]

TextBlock(text) == [t |-> "obj", type |-> "text", text |-> text]

Raised(what) == [ok |-> FALSE, error |-> what, list |-> <<>>]
Messages1(message) == [ok |-> TRUE, error |-> "", list |-> <<message>>]

\* Lines 495-507: the message of a user turn with files, from what
\* process_files returned (pf) and the final text (ft).
FilesMessage(role, pf, ft) ==
    IF ~ft.ok
    THEN Raised("TypeError")
    ELSE Messages1([role |-> role, content |-> List(pf.parts \o <<TextBlock(ft.text)>>)])

FilesTurn(role, pf, content) == FilesMessage(role, pf, FinalText(pf.text, content))

\* Lines 490-512: the message built from one history turn.
HistoryMessage(msg) ==
    IF msg.t # "obj"
    THEN Raised("AttributeError")
    ELSE IF OrEmptyList(msg.files) # <<>> /\ msg.isUser
         THEN FilesTurn("user", process_files(OrEmptyList(msg.files)), OrEmptyStr(msg.content))
         ELSE Messages1([role |-> IF msg.isUser THEN "user" ELSE "assistant",
                         content |-> OrEmptyStr(msg.content)])

\* Each message inserted at the head of the list instead of appended.
ThenReversed(first, rest) ==
    IF ~first.ok
    THEN first
    ELSE IF ~rest.ok
         THEN rest
         ELSE [ok |-> TRUE, error |-> "", list |-> rest.list \o first.list]

\* messages after `first` and then `rest` were built: the first exception
\* raised ends the building.
Then(first, rest) ==
    IF ~first.ok
    THEN first
    ELSE IF ~rest.ok
         THEN rest
         ELSE [ok |-> TRUE, error |-> "", list |-> first.list \o rest.list]

\* Lines 489-512: the loop over the history.
RECURSIVE HistoryMessages(_)
HistoryMessages(history) ==
    IF history = <<>>
    THEN [ok |-> TRUE, error |-> "", list |-> <<>>]
    ELSE Then(HistoryMessage(Head(history)), HistoryMessages(Tail(history)))

\* The array branch building the content as the text branch does, from the
\* file blocks and the final text only.
QuestionMessageReplacing(question, pf, qt, ft) ==
    IF ~qt.ok
    THEN Raised("AttributeError")
    ELSE IF ~ft.ok
    THEN Raised("TypeError")
    ELSE Messages1([role |-> "user", content |-> List(pf.parts \o <<TextBlock(ft.text)>>)])

\* Lines 519-533: the current message with files, from what process_files
\* returned (pf), the extracted question text (qt) and the final text (ft).
QuestionMessage(question, pf, qt, ft) ==
    IF ~qt.ok
    THEN Raised("AttributeError")
    ELSE IF ~ft.ok
    THEN Raised("TypeError")
    ELSE Messages1([role |-> "user",
                    content |-> List(IF question.t = "list"
                                     THEN pf.parts \o question.l
                                     ELSE pf.parts \o <<TextBlock(ft.text)>>)])

QuestionWithText(question, pf, qt) ==
    QuestionMessage(question, pf, qt, FinalText(pf.text, qt.text))

\* A string question wrapped in a text block also when there are no files.
CurrentMessageAlwaysBlocks(question, files) ==
    IF files # <<>>
    THEN QuestionWithText(question, process_files(files), extract_message_text(question))
    ELSE Messages1([role |-> "user",
                    content |-> IF question.t = "str"
                                THEN List(<<TextBlock(question)>>)
                                ELSE question])

\* Lines 515-538: the message built from the current question.
CurrentMessage(question, files) ==
    IF files # <<>>
    THEN QuestionWithText(question, process_files(files), extract_message_text(question))
    ELSE Messages1([role |-> "user", content |-> question])

\* Lines 486-538: messages, or the exception the outer try catches.
BuildMessages(data) ==
    Then(HistoryMessages(OrEmptyList(data.history)),
         CurrentMessage(data.message, OrEmptyList(data.files)))

-----------------------------------------------------------------------------
(* chat(): the checks before the stream (lines 243-251 and 457-484).       *)

Json(status, error) == [status |-> status, kind |-> "json", error |-> error]
Html(status) == [status |-> status, kind |-> "html", error |-> ""]
StreamResponse == [status |-> 200, kind |-> "stream", error |-> ""]
NoResponse == [status |-> 0, kind |-> "none", error |-> ""]

NotBuilt == [built |-> FALSE, list |-> <<>>]
Built(list) == [built |-> TRUE, list |-> list]

\* login_required, line 248: get_current_user() found no user.
NotLoggedIn(q) == ~q.auth

\* The header check left out.
KeyNeverMissing(q) == FALSE

\* Line 461: `if not api_key` (no X-API-Key header, or an empty one).
KeyMissing(q) == q.apiKey # "present"

\* The message compared with the empty string only.
MessageMissingStrOnly(data) == OrEmptyStr(data.message) = Str(<<>>)

\* Line 481: `if not question`.
MessageMissing(data) == ~Truthy(data.message)

\* Lines 575-579: the streaming Response, or the JSON error of the outer
\* except clause for the exception that the building raised.
Answer(b) ==
    IF ~b.ok
    THEN [resp |-> Json(500, b.error), messages |-> NotBuilt]
    ELSE [resp |-> StreamResponse, messages |-> Built(b.list)]

\* The response of chat() to request q and the conversation it built.
\* request.json (line 473) and the data.get calls after it run before the
\* try of line 484: a body that is not JSON leaves chat() as werkzeug's
\* BadRequest, and a JSON body that is no object as an AttributeError, which
\* Flask answers with its own HTML pages.
chat(q) ==
    IF NotLoggedIn(q)
    THEN [resp |-> Json(401, "Authentication required"), messages |-> NotBuilt]
    ELSE IF KeyMissing(q)
    THEN [resp |-> Json(401, "API key required. Please add your Anthropic API key."),
          messages |-> NotBuilt]
    ELSE IF ~q.clientOk
    THEN [resp |-> Json(401, "Invalid API key format"), messages |-> NotBuilt]
    ELSE IF q.body.kind = "malformed"
    THEN [resp |-> Html(400), messages |-> NotBuilt]
    ELSE IF q.body.kind = "null"
    THEN [resp |-> Html(500), messages |-> NotBuilt]
    ELSE IF MessageMissing(q.body.data)
    THEN [resp |-> Json(400, "No message provided"), messages |-> NotBuilt]
    ELSE Answer(BuildMessages(q.body.data))

-----------------------------------------------------------------------------
(* generate(): the stream relay (lines 540-573).                           *)

DefaultModel ==
    <<"c", "l", "a", "u", "d", "e", "-", "s", "o", "n", "n", "e", "t", "-", "4", "-", "5", "-", "2",
      "0", "2", "5", "0", "9", "2", "9">>

Hi ==
    <<"H", "i">>

Bang ==
    <<"!">>

Describe ==
    <<"d", "e", "s", "c", "r", "i", "b", "e">>

Opus ==
    <<"c", "l", "a", "u", "d", "e", "-", "o", "p", "u", "s", "-", "4">>

BeBrief ==
    <<"B", "e", " ", "b", "r", "i", "e", "f">>

NotesName ==
    <<"n", ".", "t", "x", "t">>

B64Ok ==
    <<"S", "G", "k", "=">>

B64Bad ==
    <<"/", "w", "=", "=">>

DataUrl ==
    <<"d", "a", "t", "a", ":", "t", "e", "x", "t", "/", "p", "l", "a", "i", "n", ";", "b", "a", "s",
      "e", "6", "4", ",", "S", "G", "k", "=">>

ErrAuth ==
    <<"A", "u", "t", "h", "e", "n", "t", "i", "c", "a", "t", "i", "o", "n", " ", "f", "a", "i", "l",
      "e", "d">>

ErrKey ==
    <<"b", "a", "d", " ", "A", "P", "I", " ", "K", "e", "y">>

ErrUsage ==
    <<"U", "s", "a", "g", "e", " ", "c", "a", "p">>

ErrQuota ==
    <<"q", "u", "o", "t", "a", " ", "h", "i", "t">>

ErrKeyQuota ==
    <<"q", "u", "o", "t", "a", ":", " ", "A", "P", "I", " ", "k", "e", "y">>

ErrUsageAuth ==
    <<"u", "s", "a", "g", "e", ";", " ", "a", "u", "t", "h", "e", "n", "t", "i", "c", "a", "t", "i",
      "o", "n">>

ErrOther ==
    <<"O", "v", "e", "r", "l", "o", "a", "d", "e", "d">>

ErrNear ==
    <<"a", "p", "i", "-", "k", "e", "y", " ", "u", "s", "a", "g">>

\* Line 545.
MaxTokens == 20000

\* Lines 543-555: api_params.
api_params(data, msgs) ==
    LET base == [model |-> IF data.model.t = "absent" THEN DefaultModel ELSE data.model.s,
                 max_tokens |-> MaxTokens,
                 messages |-> msgs]
        system == IF Truthy(data.systemPrompt)
                  THEN [system |-> data.systemPrompt.s]
                  ELSE <<>>
        tools == IF Truthy(data.tools) THEN [tools |-> data.tools.l] ELSE <<>>
    IN base @@ system @@ tools

\* f"data: {json.dumps(obj)}\n\n"
Frame(obj) == [prefix |-> "data: ", json |-> obj, end |-> "\n\n"]
\* The delta sent under another key.
ChunkFrameWrongKey(text) == Frame([text |-> text])

ChunkFrame(text) == Frame([chunk |-> text])
\* The end marker sent together with an empty chunk, in one object.
DoneFrameWithChunk == Frame([chunk |-> <<>>, done |-> TRUE])

DoneFrame == Frame([done |-> TRUE])
\* The failure swallowed and reported as the end marker.
ErrorFrameAsDone(message) == Frame([done |-> TRUE])

ErrorFrame(message) == Frame([error |-> message])

\* The frame put before the frames already emitted.
YieldFirst(evs, r, frame) == [evs EXCEPT ![r] = <<frame>> \o @]

\* The frame written to one channel that all requests share.
YieldToAll(evs, r, frame) == [q \in DOMAIN evs |-> Append(evs[q], frame)]

\* `yield frame` in the generator of request r.
Yield(evs, r, frame) == [evs EXCEPT ![r] = Append(@, frame)]

NotRaised == [is |-> FALSE, text |-> <<>>]

\* process_files has not been called.
NotNormalized == [done |-> FALSE, parts |-> <<>>, text |-> <<>>]

\* The workers that serve /api requests, and a worker serving none.
ApiSlots == {"a1", "a2"}

NoCall == [op |-> "none"]
NoRow == [id |-> 0]
NoSync == [chats |-> 0, documents |-> 0, systemPrompts |-> 0, agents |-> 0]

\* The users table: the users that have signed in before, the ids later
\* rows get, and an id no row has any more.
Users == {"u1", "u2"}
UserIds == Users \cup {"u3", "u4"}
DeletedUser == "u0"

\* The Google account of a user that signed in before.
GoogleIdOf(user) == IF user = "u1" THEN "g1" ELSE "g2"

\* The Google columns of a user row: access_token, refresh_token,
\* token_expires_at (in seconds) and token_scope; "null" and 0 are None.
NoTokens == [access |-> "null", refresh |-> "null", expires_at |-> 0, scope |-> "null"]
Connected ==
    [access |-> "at0", refresh |-> "rt0", expires_at |-> 800, scope |-> "drive.file"]

\* The columns after a login for which Google issued no refresh token and
\* the user granted no Drive scope.
SignedIn == [access |-> "at0", refresh |-> "null", expires_at |-> 800, scope |-> ""]

IdleWorker ==
    [pc |-> "idle", call |-> NoCall, user |-> "none", seen |-> NoRow,
     status |-> 0, rows |-> {}, sync |-> NoSync, connected |-> FALSE]

PcValues == {"idle", "rejected", "gen", "stream", "term", "closed", "aborted"}

\* The two request slots.
Reqs == {"r1", "r2"}

Init ==
    /\ req = [r \in Reqs |-> [t |-> "none"]]
    /\ pc = [r \in Reqs |-> "idle"]
    /\ resp = [r \in Reqs |-> NoResponse]
    /\ messages = [r \in Reqs |-> NotBuilt]
    /\ apiCalls = [r \in Reqs |-> <<>>]
    /\ received = [r \in Reqs |-> <<>>]
    /\ raised = [r \in Reqs |-> NotRaised]
    /\ events = [r \in Reqs |-> <<>>]
    /\ attachments = <<>>
    /\ normalized = NotNormalized
    /\ stopReason = [r \in Reqs |-> "none"]
    /\ store = {}
    /\ nextId = 1
    /\ clock = 1
    /\ api = [s \in ApiSlots |-> IdleWorker]
    /\ users = {[id |-> u, google_id |-> GoogleIdOf(u)] : u \in Users}
    /\ tokens = [u \in UserIds |->
                    IF u = "u1" THEN Connected ELSE IF u = "u2" THEN SignedIn ELSE NoTokens]
    /\ google = {}

\* chat() answers request q on slot r: an error response, or the Response
\* that wraps generate(), whose body has not run yet.
Respond(r, q, o) ==
    /\ req' = [req EXCEPT ![r] = q]
    /\ resp' = [resp EXCEPT ![r] = o.resp]
    /\ messages' = [messages EXCEPT ![r] = o.messages]
    /\ pc' = [pc EXCEPT ![r] = IF o.resp.kind = "stream" THEN "gen" ELSE "rejected"]

Chat(r, Requests) ==
    /\ pc[r] = "idle"
    /\ \E q \in Requests : Respond(r, q, chat(q))
    /\ UNCHANGED <<apiCalls, received, raised, events, attachments, normalized, stopReason, dbVars>>

\* Line 558, reached by the first next() of the generator only.
StreamCalls(r) ==
    IF pc[r] = "gen"
    THEN [apiCalls EXCEPT ![r] = Append(@, api_params(req[r].body.data, messages[r].list))]
    ELSE apiCalls

\* The except clause inside the loop over the stream, which goes on.
AfterErrorContinue == "stream"

\* The except clause starting the provider call again.
AfterErrorRetry == "gen"

\* Where the generator stands after its except clause has yielded the error.
AfterError == "term"

\* Lines 559-560: text_stream yields the next delta and generate() yields it.
GenDelta(r, Deltas) ==
    /\ pc[r] \in {"gen", "stream"}
    /\ Len(received[r]) < MaxDeltas
    /\ \E text \in Deltas :
          /\ received' = [received EXCEPT ![r] = Append(@, text)]
          /\ events' = Yield(events, r, ChunkFrame(text))
    /\ apiCalls' = StreamCalls(r)
    /\ pc' = [pc EXCEPT ![r] = "stream"]
    /\ UNCHANGED <<req, resp, messages, raised, attachments, normalized, stopReason, dbVars>>

\* Lines 558-563: text_stream is exhausted, the with block is left and the
\* end marker is yielded.  The provider's message ends with one of the stop
\* reasons of Reasons, tool_use only when the request declared tools.
GenDone(r, Reasons) ==
    /\ pc[r] \in {"gen", "stream"}
    /\ \E reason \in Reasons :
          /\ reason = "tool_use" => Truthy(req[r].body.data.tools)
          /\ stopReason' = [stopReason EXCEPT ![r] = reason]
    /\ events' = Yield(events, r, DoneFrame)
    /\ apiCalls' = StreamCalls(r)
    /\ pc' = [pc EXCEPT ![r] = "term"]
    /\ UNCHANGED <<req, resp, messages, received, raised, attachments, normalized, dbVars>>

\* Lines 565-573: the stream call, the stream or anything else in the try
\* raises an Exception whose str() is `text`.
GenError(r, Texts) ==
    /\ pc[r] \in {"gen", "stream"}
    /\ \E text \in Texts :
          /\ raised' = [raised EXCEPT ![r] = [is |-> TRUE, text |-> text]]
          /\ events' = Yield(events, r, ErrorFrame(ErrorMessage(text)))
    /\ apiCalls' = StreamCalls(r)
    /\ pc' = [pc EXCEPT ![r] = AfterError]
    /\ UNCHANGED <<req, resp, messages, received, attachments, normalized, stopReason, dbVars>>

\* The next() after the terminal yield: the generator returns.
GenReturn(r) ==
    /\ pc[r] = "term"
    /\ pc' = [pc EXCEPT ![r] = "closed"]
    /\ UNCHANGED <<req, resp, messages, apiCalls, received, raised, events,
                   attachments, normalized, stopReason, dbVars>>

\* An except clause that also catches GeneratorExit and yields an error frame
\* for it.
DisconnectCaught(r) ==
    /\ pc[r] \in {"gen", "stream", "term"}
    /\ pc' = [pc EXCEPT ![r] = "aborted"]
    /\ events' = Yield(events, r, ErrorFrame(ErrorMessage(<<>>)))
    /\ UNCHANGED <<req, resp, messages, apiCalls, received, raised,
                   attachments, normalized, stopReason, dbVars>>

\* The client goes away: the server closes the generator, GeneratorExit is
\* raised at its yield and is no Exception, so nothing more is yielded.
Disconnect(r) ==
    /\ pc[r] \in {"gen", "stream", "term"}
    /\ pc' = [pc EXCEPT ![r] = "aborted"]
    /\ UNCHANGED <<req, resp, messages, apiCalls, received, raised, events,
                   attachments, normalized, stopReason, dbVars>>

-----------------------------------------------------------------------------
(* The requests and provider behaviours explored.                          *)

Turn(isUser, content, files) ==
    [t |-> "obj", isUser |-> isUser, content |-> content, files |-> files]

File(type, data, name) ==
    [t |-> "obj", type |-> Str(type), data |-> Str(data), name |-> name]

ImageFile == File(ImagePng, B64Ok, Absent)
TextFile == File(TextPlain, DataUrl, Str(NotesName))

Messages ==
    {Absent, Str(<<>>), List(<<>>), Str(Hi), List(<<TextBlock(Str(Describe))>>)}

Histories ==
    {Absent,
     List(<<Turn(TRUE, Str(Hi), Absent), Turn(FALSE, Str(Bang), Absent)>>),
     List(<<Turn(TRUE, Str(Hi), List(<<ImageFile, TextFile>>))>>),
     List(<<Turn(TRUE, List(<<TextBlock(Str(Hi))>>), List(<<TextFile>>))>>),
     List(<<Str(Hi)>>)}

FileLists == {Absent, List(<<ImageFile>>), List(<<TextFile>>)}

Options ==
    {[systemPrompt |-> Absent, tools |-> Absent, model |-> Absent],
     [systemPrompt |-> Str(<<>>), tools |-> List(<<>>), model |-> Str(Opus)],
     [systemPrompt |-> Str(BeBrief),
      tools |-> List(<<[t |-> "obj", name |-> "search"]>>),
      model |-> Str(Opus)]}

Data(message, history, files, opt) ==
    [message |-> message, history |-> history, files |-> files,
     systemPrompt |-> opt.systemPrompt, tools |-> opt.tools, model |-> opt.model]

Bodies ==
    {[kind |-> "malformed"], [kind |-> "null"]}
    \cup {[kind |-> "object", data |-> Data(m, h, f, o)] :
            m \in Messages, h \in Histories, f \in FileLists, o \in Options}

Requests ==
    [auth : BOOLEAN, apiKey : {"absent", "empty", "present"}, clientOk : BOOLEAN,
     body : Bodies]

Deltas == {<<>>, Hi, Bang}

ErrorTexts ==
    {ErrAuth, ErrKey, ErrUsage, ErrQuota, ErrKeyQuota, ErrUsageAuth, ErrOther, ErrNear}

\* One request at a time.
Next ==
    \E r \in {"r1"} :
        \/ Chat(r, Requests)
        \/ GenDelta(r, Deltas)
        \/ GenDone(r, {"end_turn"})
        \/ GenError(r, ErrorTexts)
        \/ GenReturn(r)
        \/ Disconnect(r)

Spec == Init /\ [][Next]_vars

\* Two requests served concurrently, each against its own provider stream.
ConcRequests ==
    LET plain == [systemPrompt |-> Absent, tools |-> Absent, model |-> Absent]
        full == [systemPrompt |-> Str(BeBrief), tools |-> Absent, model |-> Str(Opus)]
        Request(key, data) ==
            [auth |-> TRUE, apiKey |-> key, clientOk |-> TRUE,
             body |-> [kind |-> "object", data |-> data]]
    IN {Request("absent", Data(Str(Hi), Absent, Absent, plain)),
        Request("present", Data(Str(Hi), Absent, Absent, plain)),
        Request("present",
                Data(List(<<TextBlock(Str(Describe))>>),
                     List(<<Turn(TRUE, Str(Hi), List(<<ImageFile, TextFile>>))>>),
                     List(<<TextFile>>),
                     full))}

ConcDeltas == {Hi, Bang}

ConcErrorTexts == {ErrAuth}

NextConc ==
    \E r \in Reqs :
        \/ Chat(r, ConcRequests)
        \/ GenDelta(r, ConcDeltas)
        \/ GenDone(r, {"end_turn"})
        \/ GenError(r, ConcErrorTexts)
        \/ GenReturn(r)
        \/ Disconnect(r)

SpecConc == Init /\ [][NextConc]_vars

-----------------------------------------------------------------------------
(* Properties of the /chat relay.                                          *)

\* What a client reads off a frame: the single key of its JSON object.
Keys(frame) == DOMAIN frame.json
IsChunk(frame) == "chunk" \in Keys(frame)
IsDone(frame) == "done" \in Keys(frame)
IsError(frame) == "error" \in Keys(frame)
IsTerminal(frame) == IsDone(frame) \/ IsError(frame)

Last(seq) == seq[Len(seq)]

\* The texts of the chunk events of a stream, in emission order.
ChunkTexts(evs) ==
    LET chunks == SelectSeq(evs, IsChunk)
    IN [i \in 1..Len(chunks) |-> chunks[i].json.chunk]

Count(evs, Test(_)) == Len(SelectSeq(evs, Test))

Arrived(r) == pc[r] # "idle"

\* C1: a stream that ran to completion holds exactly one terminal event (done
\* or error, never both), and at no time does any event follow a terminal one.
C1_OneTerminalEventLast ==
    \A r \in Reqs :
        /\ \A i \in 1..Len(events[r]) :
              IsTerminal(events[r][i]) =>
                  /\ i = Len(events[r])
                  /\ ~(IsDone(events[r][i]) /\ IsError(events[r][i]))
        /\ pc[r] = "closed" =>
              /\ events[r] # <<>>
              /\ IsTerminal(Last(events[r]))
              /\ Count(events[r], IsTerminal) = 1

C1_Witness ==
    /\ pc["r1"] = "closed"
    /\ Len(events["r1"]) = 3
    /\ IsDone(Last(events["r1"]))

\* C2: once the provider call or anything else in the stream production has
\* raised, the stream is the chunk events emitted before the failure followed
\* by exactly one error event, without any done event.
C2_FailureEndsWithOneError ==
    \A r \in Reqs :
        raised[r].is =>
            /\ Len(events[r]) = Len(received[r]) + 1
            /\ \A i \in 1..Len(received[r]) : Keys(events[r][i]) = {"chunk"}
            /\ Keys(Last(events[r])) = {"error"}
            /\ Count(events[r], IsError) = 1
            /\ Count(events[r], IsDone) = 0

C2_Witness ==
    /\ raised["r1"].is
    /\ pc["r1"] = "closed"
    /\ Len(received["r1"]) = 2

NonEmptyOutput(r) == Concat(ChunkTexts(events[r])) # <<>>

\* C3 as stated: the concatenated chunks of a completed stream are non-empty
\* if and only if the stream ended with done.
C3_NonEmptyIffDone ==
    \A r \in Reqs :
        pc[r] = "closed" => (NonEmptyOutput(r) <=> IsDone(Last(events[r])))

\* C3, amended: the concatenated chunks of a stream that has ended are
\* non-empty if and only if the provider delivered at least one non-empty
\* delta before the end, whether the stream ended with done or with error.
C3_NonEmptyIffTextDelivered ==
    \A r \in Reqs :
        pc[r] \in {"term", "closed"} =>
            (NonEmptyOutput(r) <=> \E i \in 1..Len(received[r]) : received[r][i] # <<>>)

C3_Witness ==
    /\ pc["r1"] = "closed"
    /\ IsError(Last(events["r1"]))
    /\ NonEmptyOutput("r1")

\* C4: at every point of a run the texts of the chunk events emitted are the
\* deltas received from the provider so far, one event per delta, in order.
C4_ChunksAreDeltasReceived ==
    \A r \in Reqs : ChunkTexts(events[r]) = received[r]

C4_Witness ==
    /\ received["r1"] = <<Hi, <<>>, Bang>>
    /\ pc["r1"] = "stream"

EmptyMessage(q) == q.body.data.message \in {Absent, Str(<<>>), List(<<>>)}

Answered(r, status) ==
    /\ pc[r] = "rejected"
    /\ resp[r].status = status
    /\ resp[r].kind = "json"
    /\ resp[r].error # ""

NothingSent(r) ==
    /\ apiCalls[r] = <<>>
    /\ events[r] = <<>>
    /\ received[r] = <<>>

\* C5 as stated: an authenticated request with an X-API-Key header and a JSON
\* object body whose message is absent, "" or [] is answered 400 with a JSON
\* error, without provider call or stream event.
C5_EmptyMessageIs400 ==
    \A r \in Reqs :
        (/\ Arrived(r)
         /\ req[r].auth
         /\ req[r].apiKey = "present"
         /\ req[r].body.kind = "object"
         /\ EmptyMessage(req[r]))
        => Answered(r, 400) /\ NothingSent(r)

\* C5, amended: the same, for requests whose credential the provider client
\* was constructed from (a credential the constructor rejects is answered
\* 401 before the body is read).
C5_EmptyMessageIs400WithClient ==
    \A r \in Reqs :
        (/\ Arrived(r)
         /\ req[r].auth
         /\ req[r].apiKey = "present"
         /\ req[r].clientOk
         /\ req[r].body.kind = "object"
         /\ EmptyMessage(req[r]))
        => Answered(r, 400) /\ NothingSent(r)

C5_Witness ==
    /\ Arrived("r1")
    /\ req["r1"].auth /\ req["r1"].apiKey = "present" /\ req["r1"].clientOk
    /\ req["r1"].body.kind = "object"
    /\ req["r1"].body.data.message = List(<<>>)
    /\ req["r1"].body.data.files = List(<<TextFile>>)
    /\ resp["r1"].status = 400

\* C6: a request without an X-API-Key header is answered 401 with a JSON
\* error whatever its body is: no conversation is built, no provider call is
\* made and no stream is opened.
C6_NoKeyIs401 ==
    \A r \in Reqs :
        (Arrived(r) /\ req[r].apiKey = "absent")
        => /\ Answered(r, 401)
           /\ ~messages[r].built
           /\ NothingSent(r)

C6_Witness ==
    /\ Arrived("r1")
    /\ req["r1"].auth /\ req["r1"].apiKey = "absent" /\ req["r1"].clientOk
    /\ req["r1"].body.kind = "object"
    /\ req["r1"].body.data.message = Str(Hi)
    /\ resp["r1"].status = 401

\* C7: every request that fails before streaming starts is answered with a
\* JSON error body and status 400, 401 or 500; none leaves chat() as an
\* uncaught fault.
C7_PreStreamFailureIsJson ==
    \A r \in Reqs :
        pc[r] = "rejected" =>
            /\ resp[r].kind = "json"
            /\ resp[r].error # ""
            /\ resp[r].status \in {400, 401, 500}

\* C8: the message of the error event depends on the raw exception text
\* alone: the credential message if the lower-cased text contains
\* "authentication" or "api key", else the limit message if it contains
\* "usage" or "quota", else the raw text.
C8_ErrorMessageClassified ==
    \A r \in Reqs :
        raised[r].is =>
            LET low == Lower(raised[r].text)
                credential == Contains(low, AuthenticationPat) \/ Contains(low, ApiKeyPat)
                limit == Contains(low, UsagePat) \/ Contains(low, QuotaPat)
                message == Last(events[r]).json.error
            IN /\ credential => message = InvalidKeyMessage
               /\ (~credential /\ limit) => message = LimitMessage
               /\ (~credential /\ ~limit) => message = raised[r].text

C8_Witness ==
    /\ raised["r1"].is
    /\ raised["r1"].text = ErrKeyQuota
    /\ Last(events["r1"]).json.error = InvalidKeyMessage

\* C9: a request calls the provider at most once, and a failure is followed by
\* no further call and is reported by exactly one error event.
C9_NoRetry ==
    \A r \in Reqs :
        /\ Len(apiCalls[r]) <= 1
        /\ raised[r].is =>
              /\ Len(apiCalls[r]) = 1
              /\ Count(events[r], IsError) = 1

C9_Witness ==
    /\ raised["r1"].is
    /\ pc["r1"] = "closed"
    /\ Len(apiCalls["r1"]) = 1
    /\ received["r1"] # <<>>

\* Everything the model holds about request r.
Local(r) ==
    <<req[r], pc[r], resp[r], messages[r], apiCalls[r], received[r], raised[r], events[r]>>

\* The stream of a request that runs alone, from its own provider responses.
SoloEvents(r) ==
    LET chunks == [i \in 1..Len(received[r]) |-> ChunkFrame(received[r][i])]
    IN IF raised[r].is
       THEN {chunks \o <<ErrorFrame(ErrorMessage(raised[r].text))>>}
       ELSE CASE pc[r] \in {"term", "closed"} -> {chunks \o <<DoneFrame>>}
              [] pc[r] = "aborted" -> {chunks, chunks \o <<DoneFrame>>}
              [] OTHER -> {chunks}

AsIfAlone(r) ==
    Arrived(r) =>
        /\ resp[r] = chat(req[r]).resp
        /\ messages[r] = chat(req[r]).messages
        /\ events[r] \in SoloEvents(r)
        /\ Len(apiCalls[r]) <= 1
        /\ \A i \in 1..Len(apiCalls[r]) :
              apiCalls[r][i] = api_params(req[r].body.data, messages[r].list)

\* C10: however two requests interleave, the response, the conversation and
\* the events of each are those it has when it runs alone on its input and
\* its provider responses, and a step of one request changes nothing that
\* belongs to the other.
C10_RequestsIsolated ==
    /\ [](\A r \in Reqs : AsIfAlone(r))
    /\ [][\A r \in Reqs :
             Local(r)' # Local(r) => \A o \in Reqs \ {r} : Local(o)' = Local(o)]_vars

C10_Witness ==
    /\ pc["r1"] = "closed" /\ pc["r2"] = "closed"
    /\ req["r1"] # req["r2"]
    /\ raised["r1"].is /\ ~raised["r2"].is
    /\ received["r1"] = <<Hi>> /\ received["r2"] = <<Bang, Hi>>


-----------------------------------------------------------------------------
(* Client disconnects.                                                     *)

\* What a disconnect must leave alone for request r, across one step.
Silent(r) ==
    /\ events'[r] = events[r]
    /\ apiCalls'[r] = apiCalls[r]
    /\ received'[r] = received[r]
    /\ raised'[r] = raised[r]

\* C11: once the client of a /chat stream has disconnected, the step that
\* closes the generator and every later step add no chunk, done or error
\* event, make no provider call and do not start the call again: the request
\* stays aborted with the events and the calls it had.
C11_DisconnectStopsStream ==
    [][\A r \in Reqs :
          /\ pc[r] = "aborted" => pc'[r] = "aborted"
          /\ pc'[r] = "aborted" => Silent(r)]_vars

\* A stream cut off between two chunks: text was relayed, one provider call
\* was made and no terminal event was ever produced.
C11_Witness ==
    /\ pc["r1"] = "aborted"
    /\ Len(received["r1"]) = 2
    /\ Len(apiCalls["r1"]) = 1
    /\ ~ \E i \in 1..Len(events["r1"]) : IsTerminal(events["r1"][i])


-----------------------------------------------------------------------------
(* The attachment normaliser on its own: a list of attachments is put      *)
(* together file by file and process_files is applied to it.               *)

\* The attachment lists have at most this many files.
MaxFiles == 3

B64Short ==
    <<"S", "G", "k">>

TwoCommas ==
    <<"x", ",", "S", "G", "k", "=", ",", "y">>

TextXml ==
    <<"t", "e", "x", "t", "/", "x", "m", "l">>

PdfFile == File(PdfType, B64Ok, Str(NotesName))
\* Base64 of the byte 0xFF, which is no UTF-8 text.
BadTextFile == File(TextCsv, B64Bad, Str(NotesName))
\* A last quad of three digits without its padding.
ShortTextFile == File(TextMarkdown, B64Short, Absent)
JsonFile == File(AppJson, B64Ok, Absent)
ZipFile == File(AppZip, B64Ok, Absent)
XmlFile == File(TextXml, DataUrl, Str(NotesName))
NoTypeFile == [t |-> "obj", type |-> Absent, data |-> Str(B64Ok), name |-> Absent]
TwoCommaImage == File(ImagePng, TwoCommas, Absent)

FileSamples ==
    {ImageFile, TextFile, PdfFile, BadTextFile, ShortTextFile, JsonFile, ZipFile,
     XmlFile, NoTypeFile, TwoCommaImage}

\* The tuple process_files returns.
Returned(pf) == [done |-> TRUE, parts |-> pf.parts, text |-> pf.text]

\* The client adds one more file to the list.
Attach(Files) ==
    /\ ~normalized.done
    /\ Len(attachments) < MaxFiles
    /\ \E file_data \in Files : attachments' = Append(attachments, file_data)
    /\ UNCHANGED <<req, pc, resp, messages, apiCalls, received, raised, events, normalized,
                   stopReason, dbVars>>

\* process_files(files) is called on the list.
Normalize ==
    /\ ~normalized.done
    /\ normalized' = Returned(process_files(attachments))
    /\ UNCHANGED <<req, pc, resp, messages, apiCalls, received, raised, events, attachments,
                   stopReason, dbVars>>

NextFiles == Attach(FileSamples) \/ Normalize

SpecFiles == Init /\ [][NextFiles]_vars

\* The type, the transport payload and the name the code reads from a file.
TypeOf(file_data) == OrEmptyStr(file_data.type).s
DataOf(file_data) == OrEmptyStr(file_data.data).s
NameOf(file_data) == IF file_data.name.t = "absent" THEN UnknownName ELSE file_data.name.s

IsImage(file_data) == StartsWith(TypeOf(file_data), ImagePrefix)
IsPdf(file_data) == TypeOf(file_data) = PdfType
IsBlockFile(file_data) == IsImage(file_data) \/ IsPdf(file_data)
IsTextLike(file_data) == ~IsBlockFile(file_data) /\ TypeOf(file_data) \in TextTypes
Decodes(file_data) == DecodeText(Base64Data(DataOf(file_data))).ok
IsDecodedText(file_data) == IsTextLike(file_data) /\ Decodes(file_data)

\* The block expected for an image or PDF attachment.
BlockOf(file_data) ==
    [t |-> "obj", type |-> IF IsImage(file_data) THEN "image" ELSE "document",
     source |-> [type |-> "base64", media_type |-> TypeOf(file_data),
                 data |-> Base64Data(DataOf(file_data))]]

\* The labelled section expected for a text-like attachment that decodes.
SectionOf(file_data) ==
    SecHeadA \o NameOf(file_data) \o SecHeadB \o TypeOf(file_data) \o SecHeadC
        \o DecodeText(Base64Data(DataOf(file_data))).text \o SecFoot

BlocksOf(files) ==
    LET b == SelectSeq(files, IsBlockFile) IN [i \in 1..Len(b) |-> BlockOf(b[i])]

SectionsOf(files) ==
    LET s == SelectSeq(files, IsDecodedText) IN Concat([i \in 1..Len(s) |-> SectionOf(s[i])])

\* C12: for every attachment list, the content blocks process_files returns
\* are, one for one and in input order, the blocks of the image/* and
\* application/pdf attachments, and the inlined text is the concatenation, in
\* input order, of one labelled section per text-like attachment that decoded.
C12_BlocksAndSectionsInOrder ==
    normalized.done =>
        /\ Len(normalized.parts) = Len(SelectSeq(attachments, IsBlockFile))
        /\ normalized.parts = BlocksOf(attachments)
        /\ normalized.text = SectionsOf(attachments)

\* A text file, a PDF and an image in one list: two blocks, document first,
\* and one section.
C12_Witness ==
    /\ normalized.done
    /\ attachments = <<TextFile, PdfFile, ImageFile>>
    /\ Len(normalized.parts) = 2
    /\ normalized.parts[1].type = "document"
    /\ normalized.text = SectionOf(TextFile)


\* The attachment of a list of one.
Only == attachments[1]

Unrecognised(file_data) == ~IsBlockFile(file_data) /\ ~IsTextLike(file_data)

\* C13: an attachment has one outcome, chosen by its media type in this
\* order: an image block if the type starts with image/, else a document
\* block if it is application/pdf, else its inlined text section (and no
\* block) if it is in the text allow-list, else nothing; attachments of
\* unrecognised types add no block and no text, and process_files returns.
C13_OutcomeByMediaType ==
    normalized.done =>
        /\ Len(attachments) = 1 =>
              CASE IsImage(Only) ->
                     /\ normalized.parts = <<BlockOf(Only)>>
                     /\ normalized.parts[1].type = "image"
                     /\ normalized.text = <<>>
                [] ~IsImage(Only) /\ IsPdf(Only) ->
                     /\ normalized.parts = <<BlockOf(Only)>>
                     /\ normalized.parts[1].type = "document"
                     /\ normalized.text = <<>>
                [] IsTextLike(Only) ->
                     /\ normalized.parts = <<>>
                     /\ normalized.text = IF Decodes(Only) THEN SectionOf(Only) ELSE <<>>
                [] OTHER ->
                     /\ normalized.parts = <<>>
                     /\ normalized.text = <<>>
        /\ (\A i \in 1..Len(attachments) : Unrecognised(attachments[i])) =>
              /\ normalized.parts = <<>>
              /\ normalized.text = <<>>

\* Three attachments of unrecognised types (an archive, text/xml and one
\* without a type) have been processed and left nothing.
C13_Witness ==
    /\ normalized.done
    /\ attachments = <<ZipFile, XmlFile, NoTypeFile>>
    /\ normalized.parts = <<>>
    /\ normalized.text = <<>>

\* Everything after the first comma of s, or s when it has no comma.
AfterFirstComma(s) ==
    IF \E i \in 1..Len(s) : s[i] = ","
    THEN LET i == CHOOSE k \in 1..Len(s) :
                      s[k] = "," /\ \A j \in 1..(k - 1) : s[j] # ","
         IN SubSeq(s, i + 1, Len(s))
    ELSE s

\* C14: the data used for an attachment is its whole transport payload when
\* that has no comma and otherwise everything after the first comma, also
\* when the payload has more than one comma (seen in the data of the blocks
\* of the image and PDF attachments).
C14_DataIsAfterFirstComma ==
    normalized.done =>
        LET b == SelectSeq(attachments, IsBlockFile)
        IN /\ Len(normalized.parts) = Len(b)
           /\ \A i \in 1..Len(b) :
                 normalized.parts[i].source.data = AfterFirstComma(DataOf(b[i]))

\* The list without its i-th file.
Without(files, i) == SubSeq(files, 1, i - 1) \o SubSeq(files, i + 1, Len(files))

\* C15: a text-like attachment whose payload does not decode adds nothing and
\* process_files still returns: the result is the one of the same list
\* without that attachment, so what the files before and after it add is
\* not changed by it.
C15_UndecodableTextIsSkipped ==
    normalized.done =>
        \A i \in 1..Len(attachments) :
            (IsTextLike(attachments[i]) /\ ~Decodes(attachments[i])) =>
                Returned(process_files(Without(attachments, i))) = normalized

\* A text file whose bytes are no UTF-8 between a text file and an image.
C15_Witness ==
    /\ normalized.done
    /\ attachments = <<TextFile, BadTextFile, ImageFile>>
    /\ normalized.text = SectionOf(TextFile)
    /\ normalized.parts = <<BlockOf(ImageFile)>>


-----------------------------------------------------------------------------
(* The conversation builder on its own: one request, whose history,        *)
(* message and attachments vary, is answered and its provider call made.   *)

\* An image block as the screen-capture flow of the client puts into an array.
ScreenBlock == Base64Block("image", ImagePng, B64Ok)

BuildHistories ==
    {Absent,
     List(<<Turn(TRUE, Str(Hi), Absent)>>),
     List(<<Turn(TRUE, Str(Hi), Absent), Turn(TRUE, Str(Bang), List(<<>>))>>),
     List(<<Turn(TRUE, Str(Hi), Absent), Turn(FALSE, Str(Bang), Absent),
            Turn(TRUE, Str(Describe), Absent)>>),
     List(<<Turn(FALSE, Str(Bang), List(<<ImageFile>>))>>),
     List(<<Turn(TRUE, Str(Hi), List(<<ImageFile, TextFile, PdfFile>>)),
            Turn(FALSE, Str(Bang), Absent)>>),
     List(<<Turn(TRUE, List(<<TextBlock(Str(Describe))>>), List(<<ImageFile>>))>>),
     List(<<Turn(TRUE, List(<<TextBlock(Str(Describe))>>), List(<<TextFile>>))>>),
     List(<<Turn(TRUE, Absent, List(<<BadTextFile, ImageFile>>))>>),
     List(<<Turn(TRUE, List(<<ScreenBlock, TextBlock(Str(Describe))>>), Absent),
            Turn(FALSE, Str(Bang), Absent)>>)}

BuildQuestions ==
    {Str(<<>>), Str(Hi), List(<<TextBlock(Str(Describe))>>),
     List(<<ScreenBlock, TextBlock(Str(Describe))>>), List(<<ScreenBlock>>)}

BuildFileLists ==
    {Absent, List(<<>>), List(<<ImageFile>>), List(<<TextFile>>),
     List(<<TextFile, ImageFile, PdfFile>>), List(<<BadTextFile>>),
     List(<<ZipFile, JsonFile>>)}

BuildRequests ==
    {[auth |-> TRUE, apiKey |-> "present", clientOk |-> TRUE,
      body |-> [kind |-> "object",
                data |-> Data(m, h, f, [systemPrompt |-> Absent, tools |-> Absent,
                                        model |-> Absent])]] :
        m \in BuildQuestions, h \in BuildHistories, f \in BuildFileLists}

NextBuild ==
    \E r \in {"r1"} :
        \/ Chat(r, BuildRequests)
        \/ GenDone(r, {"end_turn"})
        \/ GenReturn(r)

SpecBuild == Init /\ [][NextBuild]_vars

\* Request r was accepted: chat() answered it with the streaming response.
Accepted(r) == Arrived(r) /\ resp[r].kind = "stream"

\* The message list of an accepted request: the one sent to the provider once
\* the call was made, the one chat() built before that.
MessageList(r) ==
    IF apiCalls[r] # <<>> THEN apiCalls[r][1].messages ELSE messages[r].list

HistoryOf(r) == OrEmptyList(req[r].body.data.history)
QuestionOf(r) == req[r].body.data.message
FilesOf(r) == OrEmptyList(req[r].body.data.files)
RoleOf(turn) == IF turn.isUser THEN "user" ELSE "assistant"

\* C16: the message list of every accepted request has one entry per history
\* turn, in history order, with role user when the turn's is-user flag is set
\* and assistant otherwise, and then one last user entry for the current
\* message; the list sent to the provider is the list that was built.
C16_OneEntryPerTurnInOrder ==
    \A r \in Reqs :
        Accepted(r) =>
            /\ messages[r].built
            /\ MessageList(r) = messages[r].list
            /\ Len(MessageList(r)) = Len(HistoryOf(r)) + 1
            /\ \A i \in 1..Len(HistoryOf(r)) :
                  MessageList(r)[i].role = RoleOf(HistoryOf(r)[i])
            /\ Last(MessageList(r)).role = "user"

\* A history of a user, an assistant and a user turn was sent to the provider
\* followed by the current message.
C16_Witness ==
    /\ Accepted("r1")
    /\ Len(apiCalls["r1"]) = 1
    /\ Len(HistoryOf("r1")) = 3
    /\ [i \in 1..4 |-> apiCalls["r1"][1].messages[i].role]
          = <<"user", "assistant", "user", "user">>


\* The turn is user-authored and carries file references.
UserTurnWithFiles(turn) == turn.isUser /\ OrEmptyList(turn.files) # <<>>

\* The inlined file text followed by the text, or the text alone when no file
\* text was inlined.
WithInlined(files, text) ==
    IF SectionsOf(files) = <<>> THEN text ELSE Str(SectionsOf(files) \o text.s)

ArrayWithFiles(r) == QuestionOf(r).t = "list" /\ FilesOf(r) # <<>>

\* C18: when the current message is a block array and attachments are
\* present, the content of the built turn is the file-derived blocks followed
\* by every element of the original array, in the original order: no element
\* of the array is discarded or replaced.
C18_ArrayBlocksKept ==
    \A r \in Reqs :
        (Accepted(r) /\ ArrayWithFiles(r)) =>
            LET content == Last(MessageList(r)).content
                n == Len(BlocksOf(FilesOf(r)))
                k == Len(QuestionOf(r).l)
            IN /\ content.t = "list"
               /\ Len(content.l) >= n + k
               /\ SubSeq(content.l, 1, n) = BlocksOf(FilesOf(r))
               /\ SubSeq(content.l, n + 1, n + k) = QuestionOf(r).l

\* A screen capture with its text, sent with a text file, an image and a PDF.
C18_Witness ==
    /\ Accepted("r1")
    /\ Len(apiCalls["r1"]) = 1
    /\ QuestionOf("r1") = List(<<ScreenBlock, TextBlock(Str(Describe))>>)
    /\ FilesOf("r1") = <<TextFile, ImageFile, PdfFile>>
    /\ Len(Last(MessageList("r1")).content.l) >= 4

\* C19: whenever attachments are present on the current turn, for a string
\* message and for a block-array message, the built content ends with a text
\* block whose text is the inlined text of the text-like attachments followed
\* by the text extracted from the message.
C19_EndsWithInlinedText ==
    \A r \in Reqs :
        (Accepted(r) /\ FilesOf(r) # <<>>) =>
            LET content == Last(MessageList(r)).content
            IN /\ content.t = "list"
               /\ content.l # <<>>
               /\ Last(content.l) =
                     TextBlock(Str(SectionsOf(FilesOf(r))
                                   \o extract_message_text(QuestionOf(r)).text.s))

\* C20: a current turn without attachments has the submitted message,
\* string or array, as its content, and two consecutive user-authored turns
\* (of the history, or the last of the history and the current message) stay
\* two consecutive user entries: no entry is inserted, merged or removed.
C20_NoFilesUnchangedNoAlternation ==
    \A r \in Reqs :
        Accepted(r) =>
            /\ FilesOf(r) = <<>> => Last(MessageList(r)).content = QuestionOf(r)
            /\ Len(MessageList(r)) = Len(HistoryOf(r)) + 1
            /\ \A i \in 1..Len(HistoryOf(r)) :
                  (/\ HistoryOf(r)[i].isUser
                   /\ (i < Len(HistoryOf(r)) => HistoryOf(r)[i + 1].isUser)) =>
                      /\ MessageList(r)[i].role = "user"
                      /\ MessageList(r)[i + 1].role = "user"

\* Two user turns in a row and a string message without attachments: three
\* user entries, the last one the message itself.
C20_Witness ==
    /\ Accepted("r1")
    /\ Len(apiCalls["r1"]) = 1
    /\ FilesOf("r1") = <<>>
    /\ QuestionOf("r1") = Str(Hi)
    /\ Len(HistoryOf("r1")) = 2
    /\ \A i \in 1..3 : MessageList("r1")[i].role = "user"
    /\ MessageList("r1")[3].content = Str(Hi)


-----------------------------------------------------------------------------
(* The frames of the stream.                                               *)

EventKeys == {"chunk", "done", "error"}

\* C21: every event of a response stream is one complete frame (the prefix,
\* one JSON object, the blank line) whose object has exactly one key, which is
\* chunk, done or error: no frame has two of these keys or any other key.
C21_OneKeyPerFrame ==
    \A r \in Reqs :
        \A i \in 1..Len(events[r]) :
            /\ DOMAIN events[r][i] = {"prefix", "json", "end"}
            /\ events[r][i].prefix = "data: "
            /\ events[r][i].end = "\n\n"
            /\ Cardinality(Keys(events[r][i])) = 1
            /\ Keys(events[r][i]) \subseteq EventKeys

\* A stream of two chunk frames followed by the end marker.
C21_Witness ==
    /\ Len(events["r1"]) = 3
    /\ IsChunk(events["r1"][1]) /\ IsChunk(events["r1"][2])
    /\ IsDone(events["r1"][3])


-----------------------------------------------------------------------------
(* Requests that declare tools, and provider messages that end with a tool *)
(* invocation.                                                             *)

\* The tool declaration whose name is reserved for the secondary provider,
\* and another one.
ChatGptTool == [t |-> "obj", name |-> "chatgpt"]
SearchTool == [t |-> "obj", name |-> "search"]

ToolLists == {Absent, List(<<>>), List(<<ChatGptTool>>), List(<<SearchTool, ChatGptTool>>)}

\* chatgptKey is the X-ChatGPT-API-Key header of the request, which chat()
\* does not read.
ToolRequests ==
    {[auth |-> TRUE, apiKey |-> "present", clientOk |-> TRUE, chatgptKey |-> k,
      body |-> [kind |-> "object",
                data |-> Data(Str(Hi), Absent, Absent,
                              [systemPrompt |-> Absent, tools |-> t, model |-> Absent])]] :
        k \in {"absent", "present"}, t \in ToolLists}

StopReasons == {"end_turn", "tool_use"}

ToolErrorTexts == {ErrAuth, ErrOther}

NextTools ==
    \E r \in {"r1"} :
        \/ Chat(r, ToolRequests)
        \/ GenDelta(r, Deltas)
        \/ GenDone(r, StopReasons)
        \/ GenError(r, ToolErrorTexts)
        \/ GenReturn(r)
        \/ Disconnect(r)

SpecTools == Init /\ [][NextTools]_vars

ToolsOf(r) == req[r].body.data.tools

\* The provider's message is complete, so that it is known whether it
\* invokes a tool.
ResponseKnown(r) == stopReason[r] # "none"

HasChunk(r) == \E i \in 1..Len(events[r]) : IsChunk(events[r][i])

\* C22: when the request declares tools, no chunk event is emitted before the
\* provider's response is complete and it is known whether it invokes a tool.
C22_NoChunkBeforeToolDecision ==
    \A r \in Reqs :
        (Accepted(r) /\ Truthy(ToolsOf(r)) /\ ~ResponseKnown(r)) => ~HasChunk(r)

\* The stream of request r is over.
StreamOver(r) == pc[r] \in {"term", "closed"}

\* The provider's response to r invokes the reserved tool (the only tool the
\* request declares) and the request has no secondary-provider credential.
ReservedToolWithoutKey(r) ==
    /\ Accepted(r)
    /\ ToolsOf(r) = List(<<ChatGptTool>>)
    /\ req[r].chatgptKey = "absent"
    /\ stopReason[r] = "tool_use"

\* C23: when the provider's response invokes the reserved secondary-provider
\* tool and the request has no secondary-provider credential, the finished
\* stream is exactly one error event (no chunk, no done) and the primary
\* provider was called once, without a continuation call.
C23_MissingToolKeyIsOneError ==
    \A r \in Reqs :
        (ReservedToolWithoutKey(r) /\ StreamOver(r)) =>
            /\ Len(events[r]) = 1
            /\ IsError(events[r][1])
            /\ Len(apiCalls[r]) = 1


-----------------------------------------------------------------------------
(* Authentication: decode_jwt_token, get_current_user, login_required      *)
(* (lines 142-167 and 243-251).                                            *)

\* The rows of the users table (their ids), and an id that has no row.
\* The auth_token cookie: absent, or a token with its signature, its expiry
\* and its payload.
NoCookie == [t |-> "absent"]
Token(sig, expired, payload) ==
    [t |-> "token", sig |-> sig, expired |-> expired, payload |-> payload]
TokenOf(user_id) == Token("good", FALSE, [user_id |-> user_id])

\* decode_jwt_token: the payload, or None for ExpiredSignatureError and
\* InvalidTokenError.
NoPayload == [none |-> TRUE]

\* The expiry of the token not verified.
decode_jwt_token_unexpired(token) ==
    IF token.sig = "good" THEN token.payload ELSE NoPayload

decode_jwt_token(token) ==
    IF token.sig = "good" /\ ~token.expired THEN token.payload ELSE NoPayload

\* What get_current_user does with the payload (lines 158-167).
UserOfPayload(payload) ==
    IF "user_id" \notin DOMAIN payload
    THEN "none"
    ELSE IF \A row \in users : row.id # payload.user_id
    THEN "none"
    ELSE payload.user_id

\* get_current_user(): the id of the user, or "none" for None.
get_current_user(cookie) ==
    IF cookie.t = "absent"
    THEN "none"
    ELSE UserOfPayload(decode_jwt_token(cookie))

\* The wrapper answering every request as if a user had been found.
LoginNotRequired(cookie) == FALSE

\* login_required, line 248: the wrapper answers 401.
LoginRefused(cookie) == get_current_user(cookie) = "none"


-----------------------------------------------------------------------------
(* The models: Chat, Document, SystemPrompt, Agent (src/backend/models).   *)
(*                                                                         *)
(* A row is [id, type, user_id, client_id, created_at, updated_at, cols],  *)
(* where cols maps the keys of the update bodies to the columns they set.  *)
(* Text and JSON columns hold strings ("null" is None), timestamps and     *)
(* sort orders hold numbers.                                               *)

Types == {"chats", "documents", "system_prompts", "agents"}

\* The keys an update body may set (lines 893-900, 969-976, 1045-1050 and
\* 1119-1126).
UpdateKeys(type) ==
    CASE type = "chats" -> {"title", "messages", "agents", "turns"}
      [] type = "documents" -> {"title", "content", "driveFileId", "lastModified"}
      [] type = "system_prompts" -> {"name", "content", "sortOrder"}
      [] type = "agents" -> {"name", "systemPromptId", "color", "sortOrder"}

\* data.get(key, default)
Get(data, key, default) == IF key \in DOMAIN data THEN data[key] ELSE default

\* a or b, for text (None and '' are false) and for numbers (None and 0 are
\* false; a missing number is 0 here).
OrText(a, b) == IF a \in {"null", ""} THEN b ELSE a
OrNumber(a, b) == IF a = 0 THEN b ELSE a

\* data.get('client_id') or data.get('id')
ClientIdOf(data) == OrText(Get(data, "client_id", "null"), Get(data, "id", "null"))

\* The columns from_dict sets, per model (each model's from_dict).
ChatCols(data) ==
    [title |-> Get(data, "title", "New Chat"),
     messages |-> Get(data, "messages", "[]"),
     agents |-> Get(data, "agents", "[]"),
     turns |-> Get(data, "turns", "auto")]

DocumentCols(data, now) ==
    [title |-> Get(data, "title", "New Document.html"),
     content |-> Get(data, "content", ""),
     driveFileId |-> Get(data, "driveFileId", "null"),
     lastModified |-> OrNumber(Get(data, "lastModified", 0),
                               OrNumber(Get(data, "last_modified", 0), now))]

SystemPromptCols(data) ==
    [name |-> Get(data, "name", "New Agent"),
     content |-> Get(data, "content", ""),
     sortOrder |-> OrNumber(Get(data, "sortOrder", 0), Get(data, "sort_order", 0))]

AgentCols(data) ==
    [name |-> Get(data, "name", "Agent"),
     systemPromptId |-> OrText(Get(data, "systemPromptId", "null"),
                               Get(data, "system_prompt_id", "null")),
     color |-> Get(data, "color", "null"),
     sortOrder |-> OrNumber(Get(data, "sortOrder", 0), Get(data, "sort_order", 0))]

ColsOf(type, data, now) ==
    CASE type = "chats" -> ChatCols(data)
      [] type = "documents" -> DocumentCols(data, now)
      [] type = "system_prompts" -> SystemPromptCols(data)
      [] type = "agents" -> AgentCols(data)

\* created_at: Chat reads created_at before createdAt, the other models
\* createdAt before created_at; all fall back to the current time.
CreatedAtOf(type, data, now) ==
    IF type = "chats"
    THEN OrNumber(Get(data, "created_at", 0), OrNumber(Get(data, "createdAt", 0), now))
    ELSE OrNumber(Get(data, "createdAt", 0), OrNumber(Get(data, "created_at", 0), now))

\* Model.from_dict(data, user_id), with the primary key and the updated_at
\* default the insert gives the row.
from_dict(type, data, user_id, id, now) ==
    [id |-> id, type |-> type, user_id |-> user_id, client_id |-> ClientIdOf(data),
     created_at |-> CreatedAtOf(type, data, now), updated_at |-> now,
     cols |-> ColsOf(type, data, now)]

\* Model.query.filter_by(client_id = client_id), without the user.
QueryAnyUser(rows, type, user_id, client_id) ==
    {row \in rows : row.type = type /\ row.client_id = client_id}

\* Model.query.filter_by(user_id=user.id, client_id=client_id)
Query(rows, type, user_id, client_id) ==
    {row \in rows : row.type = type /\ row.user_id = user_id /\ row.client_id = client_id}

\* Model.query without any filter.
QueryAllAnyUser(rows, type, user_id) == {row \in rows : row.type = type}

\* Model.query.filter_by(user_id=user.id)
QueryAll(rows, type, user_id) ==
    {row \in rows : row.type = type /\ row.user_id = user_id}

\* .first(): a row of the result, or None.
First(found) == IF found = {} THEN NoRow ELSE CHOOSE row \in found : TRUE

\* No unique constraint on the tables.
UniqueViolationNever(rows, row) == FALSE

\* __table_args__ of the models: UniqueConstraint('user_id', 'client_id').
UniqueViolation(rows, row) ==
    \E other \in rows :
        /\ other.type = row.type
        /\ other.user_id = row.user_id
        /\ other.client_id = row.client_id

\* The greatest of a set of numbers, 0 for the empty set.
Max(S) == IF S = {} THEN 0 ELSE CHOOSE n \in S : \A m \in S : m <= n

\* func.max(Model.updated_at) of the user's rows, through to_timestamp.
Latest(rows, type, user_id) ==
    Max({row.updated_at : row \in QueryAll(rows, type, user_id)})

\* The JSON of /api/sync-status (lines 1172-1177).
SyncStatus(rows, user_id) ==
    [chats |-> Latest(rows, "chats", user_id),
     documents |-> Latest(rows, "documents", user_id),
     systemPrompts |-> Latest(rows, "system_prompts", user_id),
     agents |-> Latest(rows, "agents", user_id)]


-----------------------------------------------------------------------------
(* The data API (lines 836-1177).  A handler that writes takes two steps:  *)
(* its query, and the commit of its session; other workers may run between *)
(* the two.                                                                *)

\* At most this many rows are ever inserted, and the clock stops here.
MaxInserts == 2
MaxClock == 2

\* A request: the endpoint (op and type), the cookie, the client_id of the
\* URL and the JSON body.
Call(op, type, cookie, client_id, data) ==
    [op |-> op, type |-> type, cookie |-> cookie, client_id |-> client_id, data |-> data]

\* The worker after it has answered with this status and these rows.
Reply(call, user, status, rows) ==
    [pc |-> "done", call |-> call, user |-> user, seen |-> NoRow,
     status |-> status, rows |-> rows, sync |-> NoSync, connected |-> FALSE]

\* The worker between its query, which found `seen`, and its commit.
Pending(call, user, seen) ==
    [pc |-> "write", call |-> call, user |-> user, seen |-> seen,
     status |-> 0, rows |-> {}, sync |-> NoSync, connected |-> FALSE]

\* `if not row: return 404`, for the handlers that read one row.
FoundOr404(call, user, row) ==
    IF row = NoRow THEN Reply(call, user, 404, {}) ELSE Reply(call, user, 200, {row})

\* The same, for the handlers that go on to write.
PendingOr404(call, user, row) ==
    IF row = NoRow THEN Reply(call, user, 404, {}) ELSE Pending(call, user, row)

\* The create handlers without their check for an existing row.
PendingAlways(call, user, existing) == Pending(call, user, NoRow)

\* `if existing: return 409`, lines 874-876, 951-953, 1027-1029, 1101-1103.
PendingOr409(call, user, existing) ==
    IF existing # NoRow THEN Reply(call, user, 409, {}) ELSE Pending(call, user, NoRow)

\* The handler of the endpoint up to its first commit, for the user that
\* login_required found.
Handler(call, user, rows) ==
    CASE call.op = "user" -> Reply(call, user, 200, {})
      [] call.op = "list" -> Reply(call, user, 200, QueryAll(rows, call.type, user))
      [] call.op = "sync" ->
            [Reply(call, user, 200, {}) EXCEPT !.sync = SyncStatus(rows, user)]
      [] call.op = "get" ->
            FoundOr404(call, user, First(Query(rows, call.type, user, call.client_id)))
      [] call.op = "create" ->
            PendingOr409(call, user,
                         First(Query(rows, call.type, user, ClientIdOf(call.data))))
      [] call.op \in {"update", "delete"} ->
            PendingOr404(call, user, First(Query(rows, call.type, user, call.client_id)))

\* login_required(f), lines 243-251.
Guarded(call, rows) ==
    IF LoginRefused(call.cookie)
    THEN Reply(call, "none", 401, {})
    ELSE Handler(call, get_current_user(call.cookie), rows)

\* A request arrives at worker s and runs up to its answer or its commit.
ApiRequest(s, Calls) ==
    /\ api[s].pc = "idle"
    /\ \E call \in Calls :
          /\ call.op = "create" => nextId <= MaxInserts
          /\ api' = [api EXCEPT ![s] = Guarded(call, store)]
    /\ UNCHANGED <<store, nextId, clock, users, driveVars, chatVars>>


\* What a commit leaves: the worker's answer, the rows of the tables, and
\* whether a row was inserted.
Outcome(worker, rows, inserted) ==
    [worker |-> worker, store |-> rows, inserted |-> inserted]

\* db.session.add(row); db.session.commit() of a create handler: the insert
\* fails with IntegrityError, which nothing catches, when client_id is None
\* (nullable=False) or when the unique constraint is violated.
Created(w, rows, row) ==
    IF row.client_id = "null" \/ UniqueViolation(rows, row)
    THEN Outcome(Reply(w.call, w.user, 500, {}), rows, FALSE)
    ELSE Outcome(Reply(w.call, w.user, 201, {row}), rows \cup {row}, TRUE)

\* The keys of the body whose `if key in data` assignment changes the
\* attribute the query loaded: the flush writes these columns only.
Changed(type, data, seen) ==
    {key \in DOMAIN data \cap UpdateKeys(type) : data[key] # seen.cols[key]}

\* The row replaced by what from_dict makes of the body.
UpdatedRowFromBody(current, data, changed, now) ==
    [current EXCEPT !.cols = ColsOf(current.type, data, now), !.updated_at = now]

\* The UPDATE of the flush: the changed columns, and updated_at by onupdate.
UpdatedRow(current, data, changed, now) ==
    [current EXCEPT
        !.cols = [key \in DOMAIN current.cols |->
                     IF key \in changed THEN data[key] ELSE current.cols[key]],
        !.updated_at = now]

\* The commit of an update handler, where `current` holds the row the query
\* loaded as it is now.  Without a changed attribute no UPDATE is sent; when
\* the row is gone the flush (StaleDataError) or the reload for to_dict
\* (ObjectDeletedError) raises.
Updated(w, rows, current, changed, now) ==
    IF current = {}
    THEN Outcome(Reply(w.call, w.user, 500, {}), rows, FALSE)
    ELSE IF changed = {}
    THEN Outcome(Reply(w.call, w.user, 200, current), rows, FALSE)
    ELSE Outcome(Reply(w.call, w.user, 200,
                       {UpdatedRow(row, w.call.data, changed, now) : row \in current}),
                 (rows \ current)
                    \cup {UpdatedRow(row, w.call.data, changed, now) : row \in current},
                 FALSE)

\* The delete keeping the row.
DeletedNothing(w, rows, current) == Outcome(Reply(w.call, w.user, 200, {}), rows, FALSE)

\* The commit of a delete handler: a DELETE that matches no row any more only
\* warns.
Deleted(w, rows, current) == Outcome(Reply(w.call, w.user, 200, {}), rows \ current, FALSE)

\* The row with the primary key of the row the query loaded.
Current(rows, seen) == {row \in rows : row.id = seen.id}

\* db.session.commit() of the handler worker w is in.
Commit(w, rows, id, now) ==
    CASE w.call.op = "create" ->
            Created(w, rows, from_dict(w.call.type, w.call.data, w.user, id, now))
      [] w.call.op = "update" ->
            Updated(w, rows, Current(rows, w.seen),
                    Changed(w.call.type, w.call.data, w.seen), now)
      [] w.call.op = "delete" -> Deleted(w, rows, Current(rows, w.seen))

Committed(s, o) ==
    /\ api' = [api EXCEPT ![s] = o.worker]
    /\ store' = o.store
    /\ nextId' = IF o.inserted THEN nextId + 1 ELSE nextId

\* Worker s commits.
ApiWrite(s) ==
    /\ api[s].pc = "write"
    /\ Committed(s, Commit(api[s], store, nextId, clock))
    /\ UNCHANGED <<clock, users, driveVars, chatVars>>

\* The response has been sent; the worker takes the next request.
ApiReturn(s) ==
    /\ api[s].pc = "done"
    /\ api' = [api EXCEPT ![s] = IdleWorker]
    /\ UNCHANGED <<store, nextId, clock, users, driveVars, chatVars>>

\* Time passes.
Tick ==
    /\ clock < MaxClock
    /\ clock' = clock + 1
    /\ UNCHANGED <<store, nextId, api, users, driveVars, chatVars>>



-----------------------------------------------------------------------------
(* The Drive endpoints (lines 585-830) and the token they use (176-241).   *)
(* A handler that has to refresh the access token takes two steps: its     *)
(* request to Google's token endpoint, and what it does with the answer;   *)
(* other workers may run between the two.  Every other handler runs in one *)
(* step, with the answers Google gives to it.                              *)

\* time.time() at tick c of the clock, in seconds: a tick lasts as long as
\* the grace period of line 192.
time(c) == c * 300

\* Google's answer to the refresh request: its status (or an exception) and
\* the access_token and expires_in of its JSON ("null" and 0: key absent).
RefreshAnswer(status, access_token, expires_in) ==
    [status |-> status, access_token |-> access_token, expires_in |-> expires_in]

RefreshAnswers ==
    {RefreshAnswer("ok", "at1", 0), RefreshAnswer("ok", "at1", 100),
     RefreshAnswer("ok", "at2", 0), RefreshAnswer("ok", "null", 0),
     RefreshAnswer("denied", "null", 0), RefreshAnswer("raises", "null", 0)}

\* Google's answers within one request: to the refresh, to the Drive call
\* (its status) and to the revocation.
GoogleAnswers ==
    [refresh : RefreshAnswers, drive : {200, 403, 404, 500}, revoke : {"ok", "raises"}]

\* A call to Google with the credentials of this user.
GoogleCall(to, user) == [to |-> to, user |-> user]

\* The Google columns of the row of this user.
CredsOf(creds, user) == IF user \in DOMAIN creds THEN creds[user] ELSE NoTokens

\* Python truth of a text column and of token_expires_at.
Set(text) == text \notin {"null", ""}

\* What get_google_token_with_auto_refresh leaves: whether it returns a
\* token, the Google columns of the user's row, and the calls it made.
TokenResult(token, creds, calls) == [token |-> token, creds |-> creds, calls |-> calls]

\* Lines 189-197: the access token expires within 300 seconds, and there is
\* a refresh token to renew it with.
Expiring(creds, now) == creds.expires_at < now + 300
RefreshNeeded(user, creds, now) ==
    user # "none" /\ Set(creds.access) /\ Expiring(creds, now) /\ Set(creds.refresh)

\* expires_in of the answer, 3600 without one (line 216).
ExpiresIn(answer) == IF answer.expires_in = 0 THEN 3600 ELSE answer.expires_in

\* The refresh storing the new access token as the refresh token too.
RefreshedReplacingAll(creds, now, answer) ==
    [creds EXCEPT !.access = answer.access_token, !.refresh = answer.access_token,
                  !.expires_at = now + ExpiresIn(answer)]

\* Lines 211-217: the columns after the answer 200 was stored.
Refreshed(creds, now, answer) ==
    [creds EXCEPT !.access = answer.access_token,
                  !.expires_at = now + ExpiresIn(answer)]

\* The answer to the refresh is 200 and carries an access token; without
\* one, line 215 raises KeyError.
RefreshOk(answer) == answer.status = "ok" /\ answer.access_token # "null"

\* The refresh that is never attempted.
get_google_token_without_refresh(user, creds, now, answer) ==
    TokenResult(user # "none" /\ Set(creds.access), creds, {})

\* get_google_token_with_auto_refresh(), for the user get_current_user finds,
\* the Google columns of the row and the current time.
get_google_token_with_auto_refresh(user, creds, now, answer) ==
    IF user = "none" \/ ~Set(creds.access)
    THEN TokenResult(FALSE, creds, {})
    ELSE IF ~Expiring(creds, now)
    THEN TokenResult(TRUE, creds, {})
    ELSE IF ~Set(creds.refresh)
    THEN TokenResult(FALSE, creds, {})
    ELSE IF RefreshOk(answer)
    THEN TokenResult(TRUE, Refreshed(creds, now, answer), {GoogleCall("token", user)})
    ELSE TokenResult(FALSE, creds, {GoogleCall("token", user)})

\* What a handler leaves: its status, whether it reports Drive as connected,
\* the Google columns of the user's row and the calls made.
DriveResult(status, connected, creds, calls) ==
    [status |-> status, connected |-> connected, creds |-> creds, calls |-> calls]

\* `if not token: return 401`, and else the status, with the calls made.
DriveOutcome(t, status, calls) ==
    IF ~t.token
    THEN DriveResult(401, FALSE, t.creds, t.calls)
    ELSE DriveResult(status, FALSE, t.creds, t.calls \cup calls)

\* drive_save, lines 585-676: one upload; 200 and 201 are answered with 200,
\* every other status of Drive with itself.
drive_save(user, answer, t) ==
    DriveOutcome(t, answer.drive, {GoogleCall("upload", user)})

\* drive_import, lines 678-750: the export and, after 200, the metadata.
drive_import(user, answer, t) ==
    DriveOutcome(t, answer.drive,
                 IF answer.drive = 200
                 THEN {GoogleCall("export", user), GoogleCall("metadata", user)}
                 ELSE {GoogleCall("export", user)})

\* drive_picker_token, lines 752-770.
drive_picker_token(user, answer, t) == DriveOutcome(t, 200, {})

\* Line 784, for the scopes of the model: the scope names Drive.
HasDriveScope(scope) == scope = "drive.file"

\* drive_status, lines 772-797: 200 with or without a token; connected with
\* a token whose scope names Drive.
drive_status(user, answer, t) ==
    DriveResult(200, t.token /\ HasDriveScope(t.creds.scope), t.creds, t.calls)

\* The disconnect that keeps the refresh token.
drive_disconnect_keeping_refresh(user, creds) ==
    DriveResult(200, FALSE, [NoTokens EXCEPT !.refresh = creds.refresh],
                IF Set(creds.access) THEN {GoogleCall("revoke", user)} ELSE {})

\* drive_disconnect, lines 799-830: the revocation, when there is an access
\* token, whatever its outcome, and the four columns set to None.
drive_disconnect(user, creds) ==
    DriveResult(200, FALSE, NoTokens,
                IF Set(creds.access) THEN {GoogleCall("revoke", user)} ELSE {})

\* auth_logout, lines 391-419: the same for a user with an access token, and
\* nothing for any other; the answer is a redirect.
auth_logout(user, creds) ==
    IF user # "none" /\ Set(creds.access)
    THEN DriveResult(302, FALSE, NoTokens, {GoogleCall("revoke", user)})
    ELSE DriveResult(302, FALSE, creds, {})

DriveOps == {"drive_save", "drive_import", "drive_picker_token", "drive_status",
             "drive_disconnect"}

\* The handler of the Drive endpoint of the call, from the token on.
WithToken(call, user, answer, t) ==
    CASE call.op = "drive_save" -> drive_save(user, answer, t)
      [] call.op = "drive_import" -> drive_import(user, answer, t)
      [] call.op = "drive_picker_token" -> drive_picker_token(user, answer, t)
      [] call.op = "drive_status" -> drive_status(user, answer, t)

\* The handler of the Drive endpoint of the call.
DriveHandler(call, user, creds, now, answer) ==
    IF call.op = "drive_disconnect"
    THEN drive_disconnect(user, creds)
    ELSE WithToken(call, user, answer,
                   get_google_token_with_auto_refresh(user, creds, now, answer.refresh))

\* The handler has run for this user: its answer, the user's row and the
\* calls to Google.
DriveDone(s, call, user, o) ==
    /\ api' = [api EXCEPT ![s] = [Reply(call, user, o.status, {})
                                     EXCEPT !.connected = o.connected]]
    /\ tokens' = [u \in DOMAIN tokens |-> IF u = user THEN o.creds ELSE tokens[u]]
    /\ google' = google \cup o.calls

\* The worker waiting for the answer of the token endpoint, with the row it
\* loaded and the time it read; the answer is on its way.
Refreshing(call, user, creds, now, answer) ==
    [Pending(call, user, [id |-> 0, creds |-> creds, now |-> now, answer |-> answer])
        EXCEPT !.pc = "refresh"]

\* The handler of a Drive endpoint for this user, up to its answer or to its
\* refresh request.  The access token Google issues for a refresh is a new
\* one, never the one the row holds.
DriveStart(s, call, user, answer) ==
    IF call.op # "drive_disconnect" /\ RefreshNeeded(user, CredsOf(tokens, user), time(clock))
    THEN /\ answer.refresh.access_token # CredsOf(tokens, user).access
         /\ api' = [api EXCEPT ![s] = Refreshing(call, user, CredsOf(tokens, user),
                                                  time(clock), answer.refresh)]
         /\ google' = google \cup {GoogleCall("token", user)}
         /\ UNCHANGED tokens
    ELSE DriveDone(s, call, user,
                   DriveHandler(call, user, CredsOf(tokens, user), time(clock), answer))

\* login_required(f) around a Drive endpoint.
DriveGuarded(s, call, answer) ==
    IF LoginRefused(call.cookie)
    THEN /\ api' = [api EXCEPT ![s] = Reply(call, "none", 401, {})]
         /\ UNCHANGED driveVars
    ELSE DriveStart(s, call, get_current_user(call.cookie), answer)

\* A request to a Drive endpoint arrives at worker s and runs up to its
\* answer or to its refresh request.
DriveRequest(s, Calls) ==
    /\ api[s].pc = "idle"
    /\ \E call \in Calls, answer \in GoogleAnswers : DriveGuarded(s, call, answer)
    /\ UNCHANGED <<store, nextId, clock, users, chatVars>>

\* The columns the commit of line 217 writes: those the refresh changed on
\* the row the handler loaded, onto the row as it is now.
Written(current, loaded, new) ==
    [column \in DOMAIN current |->
        IF new[column] # loaded[column] THEN new[column] ELSE current[column]]

\* The handler of worker w goes on with the answer of the token endpoint: t
\* is what get_google_token_with_auto_refresh makes of it, and the dict it
\* returns (lines 220-225) is read from the row after the commit.
AfterRefresh(w, current, answer, t) ==
    WithToken(w.call, w.user, answer,
              TokenResult(t.token, Written(current, w.seen.creds, t.creds), {}))

\* The token endpoint answers worker s.
DriveRefresh(s) ==
    /\ api[s].pc = "refresh"
    /\ \E answer \in GoogleAnswers :
          /\ answer.refresh = api[s].seen.answer
          /\ DriveDone(s, api[s].call, api[s].user,
                       AfterRefresh(api[s], tokens[api[s].user], answer,
                                    get_google_token_with_auto_refresh(
                                        api[s].user, api[s].seen.creds,
                                        api[s].seen.now, answer.refresh)))
    /\ UNCHANGED <<store, nextId, clock, users, chatVars>>

\* /auth/logout arrives at worker s and is answered; it needs no login.
Logout(s, Calls) ==
    /\ api[s].pc = "idle"
    /\ \E call \in Calls :
          DriveDone(s, call, get_current_user(call.cookie),
                    auth_logout(get_current_user(call.cookie),
                                CredsOf(tokens, get_current_user(call.cookie))))
    /\ UNCHANGED <<store, nextId, clock, users, chatVars>>


-----------------------------------------------------------------------------
(* The OAuth callback (lines 325-389).  It takes two steps: the token      *)
(* response with the query for the user, and the commit.                   *)

\* What google.authorize_access_token() returns: the account id of userinfo
\* ("null": no userinfo), access_token, refresh_token ("null": none),
\* expires_at and scope ("": none).
TokenResponse(sub, access_token, refresh_token, expires_at, scope) ==
    [sub |-> sub, access_token |-> access_token, refresh_token |-> refresh_token,
     expires_at |-> expires_at, scope |-> scope]

\* User.query.filter_by(google_id=google_id).first()
NoUser == [id |-> "none", google_id |-> "null"]
FirstUser(rows, google_id) ==
    IF \E row \in rows : row.google_id = google_id
    THEN CHOOSE row \in rows : row.google_id = google_id
    ELSE NoUser

\* The primary key the insert gives a new row.
NewUserId(rows) == IF \E row \in rows : row.id = "u3" THEN "u4" ELSE "u3"

\* No unique index on google_id.
GoogleIdTakenNever(rows, google_id) == FALSE

\* unique=True of User.google_id (user.py, line 9).
GoogleIdTaken(rows, google_id) == \E row \in rows : row.google_id = google_id

\* Lines 355-364: the Google columns of a new user.
NewCreds(token) ==
    [access |-> token.access_token, refresh |-> token.refresh_token,
     expires_at |-> token.expires_at, scope |-> token.scope]

\* The update that stores the refresh token of the response as it is.
UpdatedCredsAll(creds, token) == NewCreds(token)

\* Lines 342-349: the Google columns of an existing user; the refresh token
\* is replaced only by a new one.
UpdatedCreds(creds, token) ==
    [creds EXCEPT
        !.access = token.access_token,
        !.refresh = IF Set(token.refresh_token) THEN token.refresh_token ELSE @,
        !.expires_at = token.expires_at,
        !.scope = token.scope]

\* The row the query found, with its Google columns as they were loaded.
Loaded(row) ==
    [id |-> row.id, google_id |-> row.google_id, creds |-> CredsOf(tokens, row.id)]

\* The worker between the query of the callback and its commit.
Committing(call, seen) == [Pending(call, seen.id, seen) EXCEPT !.pc = "commit"]

\* The callback arrives at worker s with the token response of the call; it
\* redirects at once without userinfo, and else looks for the user.
AuthCallback(s, Calls) ==
    /\ api[s].pc = "idle"
    /\ \E call \in Calls :
          api' = [api EXCEPT ![s] =
                     IF call.data.sub = "null"
                     THEN Reply(call, "none", 302, {})
                     ELSE Committing(call, Loaded(FirstUser(users, call.data.sub)))]
    /\ UNCHANGED <<store, nextId, clock, users, driveVars, chatVars>>

\* The commit of a callback that found no user: the insert, which fails on
\* the unique index when the account has a row by now; the exception is
\* caught and answered with the redirect to the error page.
CallbackInsert(s, w, id) ==
    IF GoogleIdTaken(users, w.call.data.sub)
    THEN /\ api' = [api EXCEPT ![s] = Reply(w.call, "none", 302, {})]
         /\ UNCHANGED <<users, tokens>>
    ELSE /\ api' = [api EXCEPT ![s] = Reply(w.call, id, 302, {})]
         /\ users' = users \cup {[id |-> id, google_id |-> w.call.data.sub]}
         /\ tokens' = [tokens EXCEPT ![id] = NewCreds(w.call.data)]

\* The commit of a callback that found the user: the columns its
\* assignments changed on the row it loaded are written.
CallbackUpdate(s, w) ==
    /\ api' = [api EXCEPT ![s] = Reply(w.call, w.seen.id, 302, {})]
    /\ tokens' = [tokens EXCEPT ![w.seen.id] =
                     Written(@, w.seen.creds, UpdatedCreds(w.seen.creds, w.call.data))]
    /\ UNCHANGED users

\* db.session.commit() of the callback worker s serves.
CallbackCommit(s) ==
    /\ api[s].pc = "commit"
    /\ IF api[s].seen.id = "none"
       THEN CallbackInsert(s, api[s], NewUserId(users))
       ELSE CallbackUpdate(s, api[s])
    /\ UNCHANGED <<store, nextId, clock, google, chatVars>>


-----------------------------------------------------------------------------
(* The requests the data API is run with.                                  *)

\* The cookies login_required refuses: none, a forged token, an expired
\* token, a token without user_id, and a token of a user whose row is gone.
BadCookies ==
    {NoCookie,
     Token("forged", FALSE, [user_id |-> "u1"]),
     Token("good", TRUE, [user_id |-> "u1"]),
     Token("good", FALSE, [sub |-> "u1"]),
     TokenOf(DeletedUser)}

\* The body of a create request, per type; the id is sent as `id` or as
\* `client_id`.
CreateBody(type) ==
    CASE type = "chats" -> [id |-> "c1", title |-> "T"]
      [] type = "documents" -> [client_id |-> "c1", content |-> "x"]
      [] type = "system_prompts" -> [id |-> "c1", name |-> "N"]
      [] type = "agents" -> [id |-> "c1", systemPromptId |-> "c1"]

\* The body of an update request, per type; the bodies of chats and documents
\* also carry keys the handlers do not read.
UpdateBody(type) ==
    CASE type = "chats" -> [title |-> "T2", client_id |-> "c9", created_at |-> 9]
      [] type = "documents" -> [content |-> "y", id |-> "c9", user_id |-> "u2"]
      [] type = "system_prompts" -> [sortOrder |-> 1]
      [] type = "agents" -> [color |-> "red"]

\* A body that sets the title CreateBody gives a chat, and so changes nothing
\* on a chat that was not updated; it names no id.
SameTitleBody == [title |-> "T"]

\* The requests of one user to the endpoints of one type, for the record c1.
TypeCalls(type, user) ==
    {Call("list", type, TokenOf(user), "", <<>>),
     Call("get", type, TokenOf(user), "c1", <<>>),
     Call("create", type, TokenOf(user), "", CreateBody(type)),
     Call("update", type, TokenOf(user), "c1", UpdateBody(type)),
     Call("delete", type, TokenOf(user), "c1", <<>>)}

\* /api/user and /api/sync-status.
UserCalls(user) ==
    {Call("user", "", TokenOf(user), "", <<>>),
     Call("sync", "", TokenOf(user), "", <<>>)}

\* Requests for a record nobody has, a create without an id, and an update
\* that changes nothing when the title is still "T".
OddCalls(user) ==
    {Call("get", "chats", TokenOf(user), "c2", <<>>),
     Call("update", "chats", TokenOf(user), "c2", UpdateBody("chats")),
     Call("delete", "chats", TokenOf(user), "c2", <<>>),
     Call("create", "chats", TokenOf(user), "", SameTitleBody),
     Call("update", "chats", TokenOf(user), "c1", SameTitleBody)}

\* User u1 uses every type; user u2 keeps a chat with the same client_id.
StoreCalls ==
    UNION {TypeCalls(type, "u1") : type \in Types}
        \cup TypeCalls("chats", "u2")
        \cup UserCalls("u1") \cup UserCalls("u2") \cup OddCalls("u1")

NextStore ==
    \/ ApiRequest("a1", StoreCalls)
    \/ ApiWrite("a1")
    \/ ApiReturn("a1")
    \/ Tick

SpecStore == Init /\ [][NextStore]_vars



\* Every endpoint of the data API, called with this cookie.
EndpointCalls(cookie) ==
    {Call(op, type, cookie, "c1", IF op = "create" THEN CreateBody(type) ELSE <<>>) :
        op \in {"list", "get", "create", "delete"}, type \in Types}
        \cup {Call("update", type, cookie, "c1", UpdateBody(type)) : type \in Types}
        \cup {Call("user", "", cookie, "", <<>>), Call("sync", "", cookie, "", <<>>)}

\* Every Drive endpoint, called with this cookie.
DriveCalls(cookie) == {Call(op, "drive", cookie, "f1", <<>>) : op \in DriveOps}

\* The cookies of the requests: those login_required refuses, and u1's.
Cookies == BadCookies \cup {TokenOf("u1")}

\* The /chat requests: `auth` is what login_required finds for the cookie.
CookieRequests ==
    {[auth |-> ~LoginRefused(cookie), apiKey |-> "present", clientOk |-> TRUE,
      cookie |-> cookie,
      body |-> [kind |-> "object",
                data |-> Data(Str(Hi), Absent, Absent,
                              [systemPrompt |-> Absent, tools |-> Absent,
                               model |-> Absent])]] :
        cookie \in Cookies}

\* The requests of u1 to the data API: they read and change the chat c1.
GoodCalls ==
    {Call("create", "chats", TokenOf("u1"), "", CreateBody("chats")),
     Call("list", "chats", TokenOf("u1"), "", <<>>),
     Call("delete", "chats", TokenOf("u1"), "c1", <<>>)}

\* Requests with every cookie to /chat, to every /drive endpoint and to the
\* endpoints of the data API.
NextGuard ==
    \/ Chat("r1", CookieRequests)
    \/ GenDone("r1", {"end_turn"})
    \/ GenReturn("r1")
    \/ ApiRequest("a1", UNION {EndpointCalls(cookie) : cookie \in BadCookies}
                            \cup GoodCalls)
    \/ ApiWrite("a1")
    \/ ApiReturn("a1")
    \/ DriveRequest("a1", UNION {DriveCalls(cookie) : cookie \in Cookies})

SpecGuard == Init /\ [][NextGuard]_vars

\* The requests two workers serve at the same time: u1 creates a record of
\* each type, updates and deletes the chat, and u2 creates a chat.
ConcCalls ==
    {Call("create", type, TokenOf("u1"), "", CreateBody(type)) : type \in Types}
        \cup {Call("create", "chats", TokenOf("u2"), "", CreateBody("chats")),
              Call("update", "chats", TokenOf("u1"), "c1", UpdateBody("chats")),
              Call("delete", "chats", TokenOf("u1"), "c1", <<>>),
              Call("get", "chats", TokenOf("u1"), "c1", <<>>)}

NextStoreConc ==
    \/ \E s \in ApiSlots :
          \/ ApiRequest(s, ConcCalls)
          \/ ApiWrite(s)
          \/ ApiReturn(s)
    \/ Tick

SpecStoreConc == Init /\ [][NextStoreConc]_vars

-----------------------------------------------------------------------------
(* Claims about the data API.                                              *)

\* The user a cookie stands for, and the rows of the store a user owns.
CallerOf(w) == get_current_user(w.call.cookie)
OwnedBy(rows, user) == {row \in rows : row.user_id = user}

\* Worker s has just taken a step of its handler.
Stepped(s) == api'[s] # api[s] /\ api'[s].pc # "idle"

\* The step of worker s returns, changes and deletes only rows of its caller,
\* and its sync-status is that of the caller's own rows.
OwnOnly(s) ==
    Stepped(s) =>
        /\ \A row \in api'[s].rows : row.user_id = CallerOf(api'[s])
        /\ \A row \in store \cup store' :
              row.user_id # CallerOf(api'[s]) => row \in store /\ row \in store'
        /\ api'[s].call.op = "sync" /\ api'[s].status = 200 =>
              api'[s].sync = SyncStatus(OwnedBy(store, CallerOf(api'[s])),
                                        CallerOf(api'[s]))

\* C25: every step of a data-API request of user U returns only rows owned by
\* U, leaves every row of every other user as it was (neither changed nor
\* deleted nor added), and computes its sync-status from U's rows alone; this
\* holds also when two users hold a record with the same client_id.
C25_OnlyOwnRecords == [][\A s \in ApiSlots : OwnOnly(s)]_vars

\* Both users hold the chat c1, and u2 has just updated theirs: the row of u2
\* carries the new title and the row of u1 the old one.
C25_Witness ==
    /\ api["a1"].pc = "done" /\ api["a1"].call.op = "update"
    /\ api["a1"].user = "u2" /\ api["a1"].status = 200
    /\ \E mine \in api["a1"].rows, other \in store :
          /\ mine \in store /\ mine.cols.title = "T2" /\ mine.client_id = "c1"
          /\ other.user_id = "u1" /\ other.type = "chats"
          /\ other.client_id = "c1" /\ other.cols.title = "T"


\* The rows of the store for the pair of this worker's create request.
PairRows(rows, w) == Query(rows, w.call.type, CallerOf(w), ClientIdOf(w.call.data))

\* C27: in every state reached by any interleaving of create, update and
\* delete requests on two workers, two rows of the store with the same type,
\* user and client_id are the same row.
C27_OneRecordPerPair ==
    \A one \in store, two \in store :
        (one.type = two.type /\ one.user_id = two.user_id
            /\ one.client_id = two.client_id) => one = two

\* Both workers ran the check of the same create request before either
\* committed: one inserted the chat c1 of u1, the other did not.
C27_Witness ==
    /\ api["a1"].pc = "done" /\ api["a2"].pc = "done"
    /\ api["a1"].call = Call("create", "chats", TokenOf("u1"), "", CreateBody("chats"))
    /\ api["a2"].call = api["a1"].call
    /\ api["a1"].status = 201 /\ api["a2"].status # 201 /\ api["a2"].status # 409
    /\ api["a1"].rows \subseteq store

\* Worker s answers a create request whose pair has a row in the store.
AnswersDuplicate(s) ==
    /\ Stepped(s) /\ api'[s].pc = "done" /\ api'[s].call.op = "create"
    /\ PairRows(store, api'[s]) # {}

\* C28: a create request answered while the store holds a row of its type for
\* its (user, client_id) pair is answered 409 and leaves the store as it was,
\* also when that row was inserted by a concurrent create request after this
\* request's own check.
C28_DuplicateCreateIs409 ==
    [][\A s \in ApiSlots :
          AnswersDuplicate(s) => api'[s].status = 409 /\ store' = store]_vars


\* The rows of the store for the record the request of this worker names.
NamedRows(rows, w) == Query(rows, w.call.type, CallerOf(w), w.call.client_id)

\* Worker s takes up a get, update or delete request of a signed-in user who
\* owns no row of that type with that client_id.
AsksForMissing(s) ==
    /\ api[s].pc = "idle" /\ Stepped(s)
    /\ api'[s].call.op \in {"get", "update", "delete"}
    /\ CallerOf(api'[s]) # "none"
    /\ NamedRows(store, api'[s]) = {}

\* Worker s answers a delete request with success.
DeleteSucceeds(s) ==
    /\ Stepped(s) /\ api'[s].pc = "done"
    /\ api'[s].call.op = "delete" /\ api'[s].status = 200

\* C29: a get, update or delete request for a client_id of which the caller
\* owns no row of that type is answered at once with 404 and changes nothing
\* in the store; and after a delete request answered with success the row it
\* found is gone: a row the caller then holds for that type and client_id was
\* inserted by a create request since, so that until such a create request
\* every later get, update or delete is one of the first kind.
C29_MissingIs404 ==
    [][\A s \in ApiSlots :
          /\ AsksForMissing(s) =>
                api'[s].pc = "done" /\ api'[s].status = 404 /\ store' = store
          /\ DeleteSucceeds(s) =>
                \A row \in NamedRows(store', api'[s]) : row.id # api[s].seen.id]_vars

\* The chat c1 of u1 has just been deleted with success while u2 still holds
\* a chat c1.
C29_Witness ==
    /\ api["a1"].pc = "done" /\ api["a1"].status = 200
    /\ api["a1"].call = Call("delete", "chats", TokenOf("u1"), "c1", <<>>)
    /\ Query(store, "chats", "u1", "c1") = {}
    /\ Query(store, "chats", "u2", "c1") # {}


\* Worker s takes a step of an update request.
UpdateStep(s) == Stepped(s) /\ api'[s].call.op = "update"

\* Row `new` is row `old` but for the columns these keys set.
SameBut(old, new, keys) ==
    /\ new.id = old.id /\ new.type = old.type
    /\ new.user_id = old.user_id /\ new.client_id = old.client_id
    /\ new.created_at = old.created_at
    /\ \A key \in DOMAIN old.cols \ keys : new.cols[key] = old.cols[key]

\* The step of worker s adds and removes no row, leaves every row but the one
\* its request names as it was, and changes on that row at most the columns
\* of the updatable keys of its body.
UpdateFrame(s) ==
    /\ \A new \in store' : \E old \in store : old.id = new.id
    /\ \A old \in store :
          IF old \in NamedRows(store, api'[s])
          THEN \E new \in store' :
                  SameBut(old, new,
                          DOMAIN api'[s].call.data \cap UpdateKeys(old.type))
          ELSE old \in store'

\* The step of worker s leaves updated_at of every row as it was.
UpdatedAtKept(s) ==
    \A old \in store : \E new \in store' :
        new.id = old.id /\ new.updated_at = old.updated_at

\* C30 as stated: an update request changes nothing but the updatable fields
\* present in its body, on the one row addressed by caller and client_id.
C30_OnlyBodyFieldsChange ==
    [][\A s \in ApiSlots : UpdateStep(s) => UpdateFrame(s) /\ UpdatedAtKept(s)]_vars

\* C30, amended: an update request changes only the updatable fields present
\* in its body and the modification time (updated_at), and only on the one
\* row addressed by caller and client_id: every field absent from the body
\* keeps its value, owner, client_id and creation time never change, and
\* every other row is left unchanged.
C30_OnlyBodyFieldsAndUpdatedAtChange ==
    [][\A s \in ApiSlots : UpdateStep(s) => UpdateFrame(s)]_vars

\* The document c1 of u1, created at time 1, has been updated at time 2 with
\* a body that sets its content: the content and updated_at are new, the
\* title is the one it was created with.
C30_Witness ==
    /\ api["a1"].pc = "done" /\ api["a1"].status = 200
    /\ api["a1"].call = Call("update", "documents", TokenOf("u1"), "c1",
                             UpdateBody("documents"))
    /\ \E row \in api["a1"].rows :
          /\ row \in store /\ row.cols.content = "y"
          /\ row.cols.title = "New Document.html"
          /\ row.created_at = 1 /\ row.updated_at = 2


\* The request carries no auth cookie, a token that is forged, expired or
\* without a user id, or a token naming a user whose row is gone.
Unauthenticated(cookie) ==
    \/ cookie.t = "absent"
    \/ /\ cookie.t = "token"
       /\ \/ cookie.sig # "good"
          \/ cookie.expired
          \/ "user_id" \notin DOMAIN cookie.payload
          \/ \A row \in users : row.id # cookie.payload.user_id

\* Worker s takes up an /api or /drive request that is not authenticated.
TakesUnauthenticated(s) ==
    api[s].pc = "idle" /\ Stepped(s) /\ Unauthenticated(api'[s].call.cookie)

\* /chat request r, which has arrived, is not authenticated.
ChatUnauthenticated(r) ==
    pc'[r] # "idle" /\ "cookie" \in DOMAIN req'[r] /\ Unauthenticated(req'[r].cookie)

\* C26: a request to /chat, to a /drive endpoint or to an /api endpoint that
\* carries no auth cookie, an invalid or expired token or a token naming a
\* user that no longer exists is answered at once with 401; the step that
\* answers it returns no row and no sync-status and changes neither the store
\* nor any user's Google credentials, makes no call to Google and none to the
\* provider, and a /chat request so answered stays answered with 401 and
\* never has a provider call, an event or a stream.
C26_UnauthenticatedIs401 ==
    [][/\ \A s \in ApiSlots :
             TakesUnauthenticated(s) =>
                /\ api'[s].pc = "done" /\ api'[s].status = 401
                /\ api'[s].rows = {} /\ api'[s].sync = NoSync
                /\ UNCHANGED <<store, nextId, users, tokens, google, apiCalls, events>>
       /\ \A r \in Reqs :
             ChatUnauthenticated(r) =>
                /\ resp'[r].status = 401 /\ resp'[r].kind = "json"
                /\ pc'[r] = "rejected"
                /\ apiCalls'[r] = <<>> /\ events'[r] = <<>>
                /\ pc[r] = "idle" =>
                      UNCHANGED <<store, nextId, users, tokens, google>>]_vars

\* Each kind of request has been refused: /chat with an expired token, and a
\* Drive save with the token of a user whose row is gone, while the store
\* holds a chat and u1 is connected to Drive.
C26_Witness ==
    /\ pc["r1"] = "rejected" /\ req["r1"].cookie = Token("good", TRUE, [user_id |-> "u1"])
    /\ api["a1"].pc = "done" /\ api["a1"].status = 401
    /\ api["a1"].call = Call("drive_save", "drive", TokenOf(DeletedUser), "f1", <<>>)
    /\ store # {} /\ tokens["u1"].access # "null"



-----------------------------------------------------------------------------
(* Claims about /api/sync-status.                                          *)

\* A second chat of the same user.
SecondChatBody == [id |-> "c2", title |-> "T"]

\* u1 keeps two chats and a document and polls; u2 keeps a chat and polls.
SyncCalls ==
    TypeCalls("chats", "u1") \cup UserCalls("u1") \cup UserCalls("u2")
        \cup {Call("create", "chats", TokenOf("u1"), "", SecondChatBody),
              Call("delete", "chats", TokenOf("u1"), "c2", <<>>),
              Call("update", "chats", TokenOf("u1"), "c1", SameTitleBody),
              Call("create", "documents", TokenOf("u1"), "", CreateBody("documents")),
              Call("create", "chats", TokenOf("u2"), "", CreateBody("chats"))}

NextSync ==
    \/ ApiRequest("a1", SyncCalls)
    \/ ApiWrite("a1")
    \/ ApiReturn("a1")
    \/ Tick

SpecSync == Init /\ [][NextSync]_vars

\* The value a sync-status reports for a type.
SyncOf(sync, type) ==
    CASE type = "chats" -> sync.chats
      [] type = "documents" -> sync.documents
      [] type = "system_prompts" -> sync.systemPrompts
      [] type = "agents" -> sync.agents

\* The update timestamps of the rows of a type that a user owns.
OwnTimes(rows, type, user) ==
    {row.updated_at : row \in {own \in rows : own.type = type /\ own.user_id = user}}

\* v is the greatest of the numbers S, or 0 when there is none.
IsGreatest(v, S) == IF S = {} THEN v = 0 ELSE v \in S /\ \A m \in S : m <= v

\* Worker s answers a sync-status request.
AnswersSync(s) == Stepped(s) /\ api'[s].call.op = "sync" /\ api'[s].status = 200

\* C31: whenever /api/sync-status is answered, the value it returns for each
\* of the four types is the greatest updated_at among the caller's own rows
\* of that type in the store, and 0 when the caller has no row of that type.
C31_SyncIsGreatestOwnTimestamp ==
    [][\A s \in ApiSlots :
          AnswersSync(s) =>
             \A type \in Types :
                IsGreatest(SyncOf(api'[s].sync, type),
                           OwnTimes(store, type, CallerOf(api'[s])))]_vars

\* u1 holds two chats, updated at times 1 and 2, and no document; the
\* sync-status of u1 reports 2 for chats and 0 for documents.
C31_Witness ==
    /\ api["a1"].pc = "done" /\ api["a1"].call.op = "sync"
    /\ api["a1"].user = "u1" /\ api["a1"].status = 200
    /\ OwnTimes(store, "chats", "u1") = {1, 2}
    /\ api["a1"].sync.chats = 2 /\ api["a1"].sync.documents = 0

\* Worker s commits a create, update or delete with success.
WritesWithSuccess(s) ==
    /\ api[s].pc = "write" /\ api'[s].pc = "done"
    /\ api'[s].status \in {200, 201}

\* C32: after every successful create, update or delete of a row of a user,
\* the value sync-status reports to that user for the type of the row differs
\* from the value it reported before.
C32_EveryChangeDetected ==
    [][\A s \in ApiSlots :
          WritesWithSuccess(s) =>
             SyncOf(SyncStatus(store', api'[s].user), api'[s].call.type)
                # SyncOf(SyncStatus(store, api'[s].user), api'[s].call.type)]_vars



-----------------------------------------------------------------------------
(* Claims about the Google tokens: refresh, OAuth callback, logout and     *)
(* disconnect.                                                             *)

\* The endpoints that ask get_google_token_with_auto_refresh for a token.
TokenOps == {"drive_save", "drive_import", "drive_picker_token", "drive_status"}

\* Their requests by u1, who holds a refresh token, and the requests for the
\* picker token and the status by u2, who holds none.
TokenCalls ==
    {Call(op, "drive", TokenOf("u1"), "f1", <<>>) : op \in TokenOps}
        \cup {Call(op, "drive", TokenOf("u2"), "f1", <<>>) :
                 op \in {"drive_picker_token", "drive_status"}}

\* u1 disconnects Drive or logs out, somebody logs out without a cookie, and
\* u1 logs in again: Google issues new tokens for the account g1.
DisconnectCalls == {Call("drive_disconnect", "drive", TokenOf("u1"), "", <<>>)}
LogoutCalls ==
    {Call("auth_logout", "auth", TokenOf("u1"), "", <<>>),
     Call("auth_logout", "auth", NoCookie, "", <<>>)}
LoginCalls ==
    {Call("auth_callback", "auth", NoCookie, "",
          TokenResponse("g1", "at3", "rt3", 5000, "drive.file"))}

\* Worker a1 serves the Drive requests; worker a2 serves disconnect, logout
\* and login, one after another.
NextDrive ==
    \/ DriveRequest("a1", TokenCalls)
    \/ DriveRefresh("a1")
    \/ ApiReturn("a1")
    \/ DriveRequest("a2", DisconnectCalls)
    \/ Logout("a2", LogoutCalls)
    \/ AuthCallback("a2", LoginCalls)
    \/ CallbackCommit("a2")
    \/ ApiReturn("a2")
    \/ Tick

SpecDrive == Init /\ [][NextDrive]_vars


\* What the answer of worker w shows of the token its handler got: save,
\* import and picker-token answer 401 exactly without one (Drive itself
\* answers 200, 403, 404 or 500 here), and status reports Drive as connected
\* only with one.
Shows(w, token) ==
    IF w.call.op = "drive_status" THEN w.connected => token ELSE token <=> w.status # 401

\* The step leaves access token, refresh token and expiry of the user's row
\* as they are.
TokensKept(user) ==
    /\ tokens'[user].access = tokens[user].access
    /\ tokens'[user].refresh = tokens[user].refresh
    /\ tokens'[user].expires_at = tokens[user].expires_at

\* The stored expiry is less than 300 seconds ahead of this time.
ExpiresSoon(creds, now) == creds.expires_at - now < 300

\* A handler that asks for the token runs from request to answer in this step.
AsksForToken(s) ==
    /\ api[s].pc = "idle" /\ api'[s].pc = "done"
    /\ api'[s].call.op \in TokenOps /\ api'[s].user # "none"

\* Without a refresh, a token is returned only when the stored expiry is at
\* least 300 seconds ahead; an expiring token without a refresh token gives
\* no token and changes nothing.
WithoutRefresh(w, creds, now) ==
    /\ ExpiresSoon(creds, now) => Shows(w, FALSE)
    /\ (creds.access # "null" /\ ExpiresSoon(creds, now) /\ creds.refresh = "null")
          => TokensKept(w.user)

\* The answer of the token endpoint is 200 with an access token.
Succeeds(answer) == answer.status = "ok" /\ answer.access_token # "null"

\* With the answer of the token endpoint: success stores the new access
\* token and the new expiry, keeps the refresh token and returns a token;
\* a rejected or failing refresh returns none and keeps all three.
WithRefresh(before, after, user, answer) ==
    IF Succeeds(answer)
    THEN /\ Shows(after, TRUE)
         /\ tokens'[user].access = answer.access_token
         /\ tokens'[user].expires_at = before.seen.now + ExpiresIn(answer)
         /\ tokens'[user].refresh = tokens[user].refresh
    ELSE /\ Shows(after, FALSE)
         /\ after.call.op = "drive_status" => ~after.connected
         /\ TokensKept(user)

\* C33: get_google_token_with_auto_refresh returns a token whose stored
\* expiry is less than 300 seconds ahead only after a successful refresh,
\* which stores the new access token and expiry and leaves the refresh token
\* as it is; when a refresh is needed and there is no refresh token, or the
\* refresh is rejected or raises, no token is returned and the stored access
\* token, refresh token and expiry are unchanged.
C33_TokenOnlyFreshOrRefreshed ==
    [][\A s \in ApiSlots :
          /\ AsksForToken(s) =>
                WithoutRefresh(api'[s], tokens[api'[s].user], time(clock))
          /\ (api[s].pc = "refresh" /\ api'[s].pc = "done") =>
                WithRefresh(api[s], api'[s], api[s].user, api[s].seen.answer)]_vars

\* u1's picker-token request at time 600 found the expiry 800, refreshed and
\* was answered 200: the row holds the new token at1 until 4200 and the
\* refresh token rt0.
C33_Witness ==
    /\ api["a1"].pc = "done" /\ api["a1"].call.op = "drive_picker_token"
    /\ api["a1"].user = "u1" /\ api["a1"].status = 200
    /\ GoogleCall("token", "u1") \in google
    /\ tokens["u1"].access = "at1" /\ tokens["u1"].expires_at = 4200
    /\ tokens["u1"].refresh = "rt0"


\* The token responses of the callbacks: for the account of u1 without and
\* with a refresh token, for a new account g3 with and without one, and one
\* without userinfo.
CallbackCalls ==
    {Call("auth_callback", "auth", NoCookie, "", response) :
        response \in {TokenResponse("g1", "at2", "null", 5000, ""),
                      TokenResponse("g1", "at3", "rt3", 6000, "drive.file"),
                      TokenResponse("g3", "at4", "rt4", 5000, "drive.file"),
                      TokenResponse("g3", "at5", "null", 6000, ""),
                      TokenResponse("null", "at6", "null", 5000, "")}}

\* Two workers serve OAuth callbacks at the same time.
NextAuth ==
    \/ AuthCallback("a1", CallbackCalls)
    \/ CallbackCommit("a1")
    \/ ApiReturn("a1")
    \/ AuthCallback("a2", CallbackCalls)
    \/ CallbackCommit("a2")
    \/ ApiReturn("a2")

SpecAuth == Init /\ [][NextAuth]_vars


\* No two user rows carry the same Google account id.
OnePerAccount ==
    \A one \in users, other \in users : one.google_id = other.google_id => one = other

\* Worker s commits a callback that found its user, with a token response
\* that carries no refresh token.
UpdatesWithoutRefreshToken(s) ==
    /\ api[s].pc = "commit" /\ api'[s].pc = "done"
    /\ api[s].seen.id # "none"
    /\ api[s].call.data.refresh_token = "null"

\* The row of the user keeps its refresh token and takes access token,
\* expiry and scope of the response.
KeepsRefreshToken(user, response) ==
    /\ tokens'[user].refresh = tokens[user].refresh
    /\ tokens'[user].access = response.access_token
    /\ tokens'[user].expires_at = response.expires_at
    /\ tokens'[user].scope = response.scope

\* C34: after any sequence of OAuth callbacks there is at most one user row
\* per Google account id, also when callbacks run at the same time; and a
\* callback for an existing user whose token response carries no refresh
\* token leaves the stored refresh token unchanged and replaces access
\* token, expiry and scope, the callbacks taken one after another: no other
\* commit falls between its query and its commit.
C34_OneUserPerAccountRefreshKept ==
    [][/\ OnePerAccount'
       /\ \A s \in ApiSlots :
             UpdatesWithoutRefreshToken(s) =>
                /\ tokens'[api[s].user].refresh = tokens[api[s].user].refresh
                /\ tokens[api[s].user] = api[s].seen.creds
                      => KeepsRefreshToken(api[s].user, api[s].call.data)]_vars

\* Two callbacks for the new account g3 ran at the same time: one inserted
\* its row and the other was refused; then u1 logged in again without a new
\* refresh token and keeps rt0 next to the new access token, expiry and scope.
C34_Witness ==
    /\ \E row \in users : row.google_id = "g3"
    /\ api["a2"].pc = "done" /\ api["a2"].call.op = "auth_callback"
    /\ api["a2"].call.data.sub = "g3" /\ api["a2"].user = "none"
    /\ api["a1"].pc = "done" /\ api["a1"].call.op = "auth_callback"
    /\ api["a1"].user = "u1" /\ api["a1"].call.data.refresh_token = "null"
    /\ tokens["u1"] = [access |-> "at2", refresh |-> "rt0", expires_at |-> 5000, scope |-> ""]



\* Worker s serves /auth/logout or /drive/disconnect for a user whose row
\* holds an access token.
ClearsTokens(s) ==
    /\ api[s].pc = "idle" /\ api'[s].pc = "done"
    /\ api'[s].call.op \in {"auth_logout", "drive_disconnect"}
    /\ api'[s].user # "none"
    /\ tokens[api'[s].user].access # "null"

\* Worker r has answered the logout or disconnect of a user and has taken
\* no request since.  Logins are served by the same worker in SpecDrive, so
\* the user has not logged in again.
Disconnected(r) ==
    /\ api[r].pc = "done"
    /\ api[r].call.op \in {"auth_logout", "drive_disconnect"}
    /\ api[r].user # "none"

\* Save, import and picker-token are answered 401 and status reports Drive
\* as not connected.
Refused(w) == IF w.call.op = "drive_status" THEN ~w.connected ELSE w.status = 401

\* C35: when /auth/logout or /drive/disconnect completes for a user who held
\* tokens, access token, refresh token, expiry and scope of the row are
\* empty, whatever the revocation did; and every Drive save, import,
\* picker-token and status request of that user that arrives from then on,
\* before the user logs in again, is answered 401 (status: not connected).
C35_NoDriveAfterDisconnect ==
    [][\A s \in ApiSlots :
          /\ ClearsTokens(s) => tokens'[api'[s].user] = NoTokens
          /\ \A r \in ApiSlots \ {s} :
                (Disconnected(r) /\ AsksForToken(s) /\ api'[s].user = api[r].user)
                   => Refused(api'[s])]_vars

=============================================================================
